---- MODULE Spec2Model ----
(***************************************************************************)
(* The PostgreSQL actor placement store (package actorstore/postgresql).   *)
(*                                                                         *)
(* The committed database is three tables (hosts, hosts_actor_types,       *)
(* actors).  Callers run the Store operations concurrently; the store      *)
(* keeps no in-process state between calls.  A statement sent on the pool  *)
(* (p.db) is its own transaction and is visible at once; a statement sent  *)
(* on a pgx.Tx is pending until the Commit of executeInTransaction.        *)
(*                                                                         *)
(* SpecReminders is the reminders table with its lease columns and the     *)
(* reminder operations; SpecLifecycle is the store object itself (the      *)
(* running flag, the pool, the parsed metadata) under Init, Ping and Close.*)
(* SpecMetadata is the metadata object under repeated parsing.             *)
(***************************************************************************)
EXTENDS Integers, Sequences, FiniteSets, TLC

\* ------------------------------------------------------------- bounds
\* Number of concurrent callers of the store in Spec.
NumProcs == 2
\* Number of concurrent LookupActor callers in SpecLookup.
NumCallers == 3
\* Number of host IDs the database generates in one run (IDs are never reused).
MaxHostIds == 2
\* Timestamps are 0..MaxTime.
MaxTime == 1
\* Number of events in one run: calls of the store started, plus statements (or
\* waits) the environment fails or cancels.
MaxEvents == 5

\* ------------------------------------------------------------- inputs
Addresses == {"addr1", "addr2"}
AppIDs == {"a1"}
ApiLevels == {0, 1}
ActorTypeNames == {"cat", "dog"}
ActorIDs == {"id1"}
Times == 0..MaxTime
\* The empty host ID "" is 0; generated host IDs are 1, 2, ...
NoHostID == 0
HostIDs == 1..MaxHostIds

\* actorstore.ActorHostType{ActorType, IdleTimeout}
HostType(t, d) == [ActorType |-> t, IdleTimeout |-> d]
\* The actor-type lists callers pass (a Go slice: ordered, duplicates possible).
TypeLists ==
    { <<HostType("cat", 30)>>,
      <<HostType("cat", 30), HostType("dog", 60)>> }
\* UpdateActorHostRequest.LastHealthCheck == nil
NilTime == -1

VARIABLES
    hosts,      \* committed rows of the hosts table
    hat,        \* committed rows of the hosts_actor_types table
    actors,     \* committed rows of the actors table
    nextId,     \* host IDs generated so far
    pc,         \* per caller: where it is in its current call
    args,       \* per caller: the call and its arguments
    loc,        \* per caller: local variables of the call
    tx,         \* per caller: the pending writes of its open transaction
    ret,        \* per caller: what the call returned
    placed,     \* history: per actor, the row the queries return since its last removal
    events,     \* calls started and failures injected so far
    reminders,  \* committed rows of the reminders table
    clock,      \* the database clock
    uuids,      \* reminder IDs and lease IDs generated so far
    fetched,    \* per caller: the reminders its last fetch leased, and when
    running,    \* PostgreSQL.running
    db,         \* PostgreSQL.db
    metadata,   \* PostgreSQL.metadata
    frames,     \* per caller: the frames of Close on its stack
    passed      \* history: the number of Init calls that passed the gate

vars == <<hosts, hat, actors, nextId, pc, args, loc, tx, ret, placed, events,
          reminders, clock, uuids, fetched, running, db, metadata, frames, passed>>
store == <<hosts, hat, actors>>
reminderStore == <<reminders, clock, uuids, fetched>>
lifecycle == <<running, db, metadata, frames, passed>>

Procs == DOMAIN pc
Pairs == ActorTypeNames \X ActorIDs

\* The zero value of actorstore.LookupActorResponse.
EmptyRes == [AppID |-> "", Address |-> "", IdleTimeout |-> 0]
NoArgs == [op |-> "none"]
\* The call's locals: the host ID at hand, the loop counter of LookupActor, the
\* row its query returns; and (history) whether a statement of the call has
\* changed committed rows before any commit.
NoRow == <<"", "", 0>>
NoLoc == [hostID |-> NoHostID, i |-> 0, row |-> NoRow, wrote |-> FALSE,
          rollbackErr |-> FALSE]
NoTx == [active |-> FALSE, hosts |-> {}, hat |-> {}, hc |-> {}]
OpenTx == [active |-> TRUE, hosts |-> {}, hat |-> {}, hc |-> {}]

\* What a call returned: the error, and the host ID (AddActorHost) or the response
\* (LookupActor) returned with it.
\* (GetReminder: the execution time of the schedule.)
Return(e, v) == [err |-> e, hostID |-> v, res |-> EmptyRes, ExecutionTime |-> NilTime]
ReturnRes(e, r) ==
    [err |-> e, hostID |-> NoHostID, res |-> r, ExecutionTime |-> NilTime]
ReturnReminder(e, t) ==
    [err |-> e, hostID |-> NoHostID, res |-> EmptyRes, ExecutionTime |-> t]
NoRet == Return("none", NoHostID)

\* Whether the environment fails the statement at hand (a generic database
\* error, a timeout, a cancelled context).  A call's first statement may fail in
\* the step that starts the call, hence the start.
FaultChoices(start) == IF events + start < MaxEvents THEN {FALSE, TRUE} ELSE {FALSE}
Spend(start, fail) == events + start + (IF fail THEN 1 ELSE 0)

Range(s) == {s[i] : i \in 1..Len(s)}

\* What fetch-and-lease returned: the leased rows, and the time of the lease.
NoneFetched == [rows |-> {}, at |-> NilTime]
\* The reminders table is empty and no reminder call has been made.
NoReminders(callers) ==
    /\ reminders = {}
    /\ clock = 0
    /\ uuids = 0
    /\ fetched = [p \in callers |-> NoneFetched]

\* One second, in the unit of time.Duration values (milliseconds here).
Second == 1000
\* The zero value of pgMetadata.
ZeroMetadata == [TablePrefix |-> "", MetadataTableName |-> "", Timeout |-> 0]
\* pgMetadata after InitWithMetadata of an empty property map.
DefaultMetadata ==
    [TablePrefix |-> "", MetadataTableName |-> "dapr_metadata", Timeout |-> 20 * Second]
\* A new PostgreSQL object: not running, no pool.
Uninitialized(callers) ==
    /\ running = FALSE
    /\ db = "nil"
    /\ metadata = ZeroMetadata
    /\ frames = [p \in callers |-> 0]
    /\ passed = 0
\* The object after its one successful Init with the default configuration.
Initialized(callers) ==
    /\ running = TRUE
    /\ db = "open"
    /\ metadata = DefaultMetadata
    /\ frames = [p \in callers |-> 0]
    /\ passed = 0

Init ==
    /\ hosts = {}
    /\ hat = {}
    /\ actors = {}
    /\ nextId = 0
    /\ pc = [p \in 1..NumProcs |-> "idle"]
    /\ args = [p \in 1..NumProcs |-> NoArgs]
    /\ loc = [p \in 1..NumProcs |-> NoLoc]
    /\ tx = [p \in 1..NumProcs |-> NoTx]
    /\ ret = [p \in 1..NumProcs |-> NoRet]
    /\ placed = [a \in Pairs |-> NoRow]
    /\ events = 0
    /\ NoReminders(1..NumProcs)
    /\ Initialized(1..NumProcs)

\* ------------------------------------------------------- the database
\* Rows of the three tables (the persisted schema).
HostRow(id, addr, app, lvl, hc) ==
    [host_id |-> id, host_address |-> addr, host_app_id |-> app,
     host_actors_api_level |-> lvl, host_last_healthcheck |-> hc]
HatRow(id, t) ==
    [host_id |-> id, actor_type |-> t.ActorType, actor_idle_timeout |-> t.IdleTimeout]
ActorRow(t, a, id, idle) ==
    [actor_type |-> t, actor_id |-> a, host_id |-> id, actor_idle_timeout |-> idle]

HostExists(id) == \E h \in hosts : h.host_id = id
HostOf(id) ==
    IF HostExists(id) THEN CHOOSE h \in hosts : h.host_id = id
    ELSE HostRow(id, "", "", 0, 0)

\* Locks held by the open transactions of the other callers.  A row inserted or
\* updated in a transaction is locked until the transaction ends; a statement
\* that needs it waits (its action is not enabled).
OtherTx(p) == {tx[q] : q \in Procs \ {p}}
\* An uncommitted hosts row with the same (address, app ID).
HostKeyPending(p, addr, app) ==
    \E t \in OtherTx(p) : \E h \in t.hosts :
        h.host_address = addr /\ h.host_app_id = app
\* An uncommitted update of hosts row id.
HostRowLocked(p, id) == \E t \in OtherTx(p) : \E u \in t.hc : u.host_id = id
\* An uncommitted hosts_actor_types row referring to hosts row id (its foreign key
\* holds a key-share lock on the hosts row, which a DELETE of the row waits for).
HostKeyShared(p, id) == \E t \in OtherTx(p) : \E r \in t.hat : r.host_id = id
\* An uncommitted hosts_actor_types row with the same (host_id, actor_type).
HatKeyPending(p, id, ts) ==
    \E t \in OtherTx(p) : \E r \in t.hat :
        r.host_id = id /\ r.actor_type \in {x.ActorType : x \in ts}

\* CURRENT_TIMESTAMP: the model does not advance the database clock.
CurrentTimestamp == 0

\* PostgreSQL error classes the code tells apart.
ErrUniqueViolation == "unique_violation"
ErrForeignKey == "foreign_key_violation"
ErrOther == "db_error"
ErrNone == "ok"

\* (a check that recognises no error)
isUniqueViolationErrorNever(e) == FALSE
\* Returns true if the error is a unique constraint violation error.
isUniqueViolationError(e) == e = ErrUniqueViolation

\* ---------------------------------------------- executeInTransaction
\* db.Begin, then the first statement of the callback is next (at pc first); on
\* failure the call returns at once: no transaction is open, nothing is rolled
\* back.
executeInTransaction_Begin(p, first, fail) ==
    IF fail
    THEN /\ pc' = [pc EXCEPT ![p] = "done"]
         /\ ret' = [ret EXCEPT ![p] = Return("BeginFailed", NoHostID)]
         /\ tx' = tx
    ELSE /\ pc' = [pc EXCEPT ![p] = first]
         /\ ret' = ret
         /\ tx' = [tx EXCEPT ![p] = OpenTx]

\* The committed tables once transaction t is committed.
CommittedHosts(t) ==
    {IF \E u \in t.hc : u.host_id = h.host_id
     THEN [h EXCEPT !.host_last_healthcheck =
              (CHOOSE u \in t.hc : u.host_id = h.host_id).hc]
     ELSE h : h \in hosts} \cup t.hosts
\* (a commit that loses the declarations written in the transaction)
CommittedHatDropped(t) == hat
CommittedHat(t) == hat \cup t.hat

\* What tx.Rollback leaves in the committed tables: nothing of the transaction.
RolledBackHosts(t) == hosts
RolledBackHat(t) == hat

\* (a commit after which success is never set: the deferred rollback runs)
executeInTransaction_CommitNoSuccess(p) ==
    /\ pc[p] = "commit"
    /\ \E fail \in FaultChoices(0) :
        /\ events' = Spend(0, fail)
        /\ pc' = [pc EXCEPT ![p] = "rollback"]
        /\ IF fail
           THEN /\ ret' = [ret EXCEPT ![p] = Return("CommitFailed", loc[p].hostID)]
                /\ UNCHANGED <<hosts, hat>>
           ELSE /\ ret' = [ret EXCEPT ![p] = Return("nil", loc[p].hostID)]
                /\ hosts' = CommittedHosts(tx[p])
                /\ hat' = CommittedHat(tx[p])
    /\ UNCHANGED <<actors, nextId, args, loc, placed, tx>>
    /\ UNCHANGED <<reminderStore, lifecycle>>

\* tx.Commit after the callback returned no error; a failed commit aborts the
\* transaction and leaves the deferred rollback to run.  The callback's result
\* (res) is returned in both cases.
executeInTransaction_Commit(p) ==
    /\ pc[p] = "commit"
    /\ \E fail \in FaultChoices(0) :
        /\ events' = Spend(0, fail)
        /\ IF fail
           THEN /\ pc' = [pc EXCEPT ![p] = "rollback"]
                /\ ret' = [ret EXCEPT ![p] = Return("CommitFailed", loc[p].hostID)]
                /\ UNCHANGED <<hosts, hat, tx>>
           ELSE /\ pc' = [pc EXCEPT ![p] = "done"]
                /\ ret' = [ret EXCEPT ![p] = Return("nil", loc[p].hostID)]
                /\ hosts' = CommittedHosts(tx[p])
                /\ hat' = CommittedHat(tx[p])
                /\ tx' = [tx EXCEPT ![p] = NoTx]
    /\ UNCHANGED <<actors, nextId, args, loc, placed>>
    /\ UNCHANGED <<reminderStore, lifecycle>>

\* (a rollback error that replaces the error being returned)
AfterRollbackReplaced(err, rollbackErr) == IF rollbackErr THEN "RollbackFailed" ELSE err
\* The error executeInTransaction returns once the deferred function has run: the
\* rollback error is only logged.
AfterRollback(err, rollbackErr) == err

\* The deferred rollback (success is false).  When tx.Rollback itself fails the
\* transaction is abandoned all the same: the server discards it with the
\* connection.
executeInTransaction_Rollback(p) ==
    /\ pc[p] = "rollback"
    /\ \E rollbackErr \in FaultChoices(0) :
        /\ events' = Spend(0, rollbackErr)
        /\ loc' = [loc EXCEPT ![p].rollbackErr = rollbackErr]
        /\ ret' = [ret EXCEPT ![p].err = AfterRollback(@, rollbackErr)]
    /\ pc' = [pc EXCEPT ![p] = "done"]
    /\ hosts' = RolledBackHosts(tx[p])
    /\ hat' = RolledBackHat(tx[p])
    /\ tx' = [tx EXCEPT ![p] = NoTx]
    /\ UNCHANGED <<actors, nextId, args, placed>>
    /\ UNCHANGED <<reminderStore, lifecycle>>

\* The callback returned (res, err) with err non-nil.
BodyFails(p, e, v) ==
    /\ pc' = [pc EXCEPT ![p] = "rollback"]
    /\ ret' = [ret EXCEPT ![p] = Return(e, v)]

\* ------------------------------------------------------- AddActorHost
AddRequest(addr, app, lvl, ts) ==
    [op |-> "AddActorHost", Address |-> addr, AppID |-> app, ApiLevel |-> lvl,
     ActorTypes |-> ts]
AddRequests ==
    {AddRequest(a, i, 1, ts) : a \in Addresses, i \in AppIDs, ts \in TypeLists}
    \cup {AddRequest("", "a1", 1, <<HostType("cat", 30)>>),
          AddRequest("addr1", "", 1, <<HostType("cat", 30)>>),
          AddRequest("addr1", "a1", 0, <<HostType("cat", 30)>>)}

\* (a validation that accepts API level 0)
AddActorHostInvalidLevel(r) == r.AppID = "" \/ r.Address = "" \/ r.ApiLevel < 0
AddActorHostInvalid(r) == r.AppID = "" \/ r.Address = "" \/ r.ApiLevel <= 0

\* Host IDs generated, or about to be by a call under way (caps the ID counter).
IdsClaimed ==
    nextId + Cardinality({q \in Procs : pc[q] = "add_host"})

\* The call: its validation, then executeInTransaction begins.
AddActorHost(p) ==
    /\ pc[p] = "idle"
    /\ events < MaxEvents
    /\ \E r \in AddRequests :
        /\ args' = [args EXCEPT ![p] = r]
        /\ IF AddActorHostInvalid(r)
           THEN /\ pc' = [pc EXCEPT ![p] = "done"]
                /\ ret' = [ret EXCEPT ![p] = Return("InvalidRequest", NoHostID)]
                /\ UNCHANGED <<tx>>
                /\ events' = events + 1
           ELSE /\ IdsClaimed < MaxHostIds
                /\ \E fail \in FaultChoices(1) :
                    /\ events' = Spend(1, fail)
                    /\ executeInTransaction_Begin(p, "add_host", fail)
    /\ UNCHANGED <<hosts, hat, actors, nextId, loc, placed>>
    /\ UNCHANGED <<reminderStore, lifecycle>>

\* (the INSERT sent on the pool instead)
AddActorHost_ConnPool == "db"
\* Where the INSERT of the host row is sent: the transaction (tx.QueryRow).
AddActorHost_Conn == "tx"

\* INSERT INTO hosts ... RETURNING host_id
AddActorHost_InsertHost(p) ==
    /\ pc[p] = "add_host"
    /\ ~HostKeyPending(p, args[p].Address, args[p].AppID)
    /\ \E fail \in FaultChoices(0) :
        LET now == CurrentTimestamp
            dup == \E h \in hosts : /\ h.host_address = args[p].Address
                                    /\ h.host_app_id = args[p].AppID
            e == IF fail THEN ErrOther ELSE IF dup THEN ErrUniqueViolation ELSE ErrNone
            id == nextId + 1
            row == HostRow(id, args[p].Address, args[p].AppID, args[p].ApiLevel, now)
        IN  /\ events' = Spend(0, fail)
            /\ IF e # ErrNone
               THEN /\ BodyFails(p, IF isUniqueViolationError(e)
                                    THEN "HostConflict" ELSE "StoreFailure", NoHostID)
                    /\ UNCHANGED <<hosts, tx, loc, nextId>>
               ELSE /\ nextId' = id
                    /\ loc' = [loc EXCEPT ![p].hostID = id,
                                          ![p].wrote = AddActorHost_Conn # "tx"]
                    /\ IF AddActorHost_Conn = "tx"
                       THEN /\ tx' = [tx EXCEPT ![p].hosts = @ \cup {row}]
                            /\ hosts' = hosts
                       ELSE /\ hosts' = hosts \cup {row}
                            /\ tx' = tx
                    /\ pc' = [pc EXCEPT ![p] = "add_types"]
                    /\ ret' = ret
    /\ UNCHANGED <<hat, actors, args, placed>>
    /\ UNCHANGED <<reminderStore, lifecycle>>

\* Inserts the list of supported actor types for a host (tx.CopyFrom): the error
\* it returns.  The host row must exist (foreign key) and no (host_id, actor_type)
\* may repeat (primary key), in the list or against a committed row.
insertHostActorTypes(p, id, ts, fail) ==
    IF Len(ts) = 0 THEN ErrNone
    ELSE IF fail THEN ErrOther
    ELSE IF ~(HostExists(id) \/ \E h \in tx[p].hosts : h.host_id = id)
         THEN ErrForeignKey
    ELSE IF \/ \E i, j \in 1..Len(ts) : i # j /\ ts[i].ActorType = ts[j].ActorType
            \/ \E r \in hat \cup tx[p].hat :
                    r.host_id = id /\ r.actor_type \in {x.ActorType : x \in Range(ts)}
         THEN ErrUniqueViolation
    ELSE ErrNone

\* Register each supported actor type.
AddActorHost_InsertTypes(p) ==
    /\ pc[p] = "add_types"
    /\ \E fail \in (IF Len(args[p].ActorTypes) = 0 THEN {FALSE} ELSE FaultChoices(0)) :
        LET id == loc[p].hostID
            e == insertHostActorTypes(p, id, args[p].ActorTypes, fail)
        IN  /\ events' = Spend(0, fail)
            /\ IF e # ErrNone
               THEN /\ BodyFails(p, "StoreFailure", NoHostID)
                    /\ tx' = tx
               ELSE /\ pc' = [pc EXCEPT ![p] = "commit"]
                    /\ ret' = ret
                    /\ tx' = [tx EXCEPT ![p].hat =
                                @ \cup {HatRow(id, t) : t \in Range(args[p].ActorTypes)}]
    /\ UNCHANGED <<hosts, hat, actors, nextId, args, loc, placed>>
    /\ UNCHANGED <<reminderStore, lifecycle>>

\* DELETE FROM hosts WHERE host_id = id: the rows of the other tables that refer
\* to the host go with it (ON DELETE CASCADE).
HostsWithout(id) == {h \in hosts : h.host_id # id}
\* (a DELETE that removes nothing)
HatWithoutNothing(id) == hat
HatWithout(id) == {r \in hat : r.host_id # id}
\* (no cascade to the actors table)
ActorsWithoutNoCascade(id) == actors
ActorsWithout(id) == {r \in actors : r.host_id # id}

\* ---------------------------------------------------- UpdateActorHost
\* ActorTypes is a Go slice: nil (hasTypes false) differs from an empty list.
UpdateRequest(id, hc, hasTypes, ts) ==
    [op |-> "UpdateActorHost", actorHostID |-> id, LastHealthCheck |-> hc,
     ActorTypesNil |-> ~hasTypes, ActorTypes |-> ts]
\* The actor-type lists callers pass to UpdateActorHost.
UpdateTypeLists == {<<>>, <<HostType("dog", 60)>>}
UpdateRequests ==
    {UpdateRequest(id, hc, TRUE, ts) :
        id \in HostIDs, hc \in {NilTime} \cup (1..MaxTime), ts \in UpdateTypeLists}
    \cup {UpdateRequest(id, hc, FALSE, <<>>) : id \in HostIDs, hc \in 1..MaxTime}
    \cup {UpdateRequest(NoHostID, 1, FALSE, <<>>),
          UpdateRequest(1, NilTime, FALSE, <<>>)}

\* (a validation that takes an empty list for an absent one)
UpdateActorHostInvalidEmpty(r) ==
    r.actorHostID = NoHostID \/ (r.LastHealthCheck = NilTime /\ Len(r.ActorTypes) = 0)
\* We need at least _something_ to update.
UpdateActorHostInvalid(r) ==
    r.actorHostID = NoHostID \/ (r.LastHealthCheck = NilTime /\ r.ActorTypesNil)

\* Updates the hosts table with the given properties: the error it returns.
updateHostsTable(id, hc, fail) ==
    IF hc = NilTime THEN "nil"
    ELSE IF fail THEN "StoreFailure"
    ELSE IF ~HostExists(id) THEN "HostNotFound"
    ELSE "nil"

\* (an UPDATE without its WHERE clause)
HostsWithHealthCheckAll(id, hc) == {[h EXCEPT !.host_last_healthcheck = hc] : h \in hosts}
\* UPDATE hosts SET host_last_healthcheck = hc WHERE host_id = id, committed.
HostsWithHealthCheck(id, hc) ==
    {IF h.host_id = id THEN [h EXCEPT !.host_last_healthcheck = hc] ELSE h : h \in hosts}

\* The call: its validation; then either the single UPDATE on the pool (no actor
\* types given), or executeInTransaction begins.
UpdateActorHost(p) ==
    /\ pc[p] = "idle"
    /\ events < MaxEvents
    /\ \E r \in UpdateRequests :
        /\ args' = [args EXCEPT ![p] = r]
        /\ IF UpdateActorHostInvalid(r)
           THEN /\ pc' = [pc EXCEPT ![p] = "done"]
                /\ ret' = [ret EXCEPT ![p] = Return("InvalidRequest", NoHostID)]
                /\ UNCHANGED <<hosts, tx>>
                /\ events' = events + 1
           ELSE IF r.ActorTypesNil
           THEN /\ ~HostRowLocked(p, r.actorHostID)
                /\ \E fail \in FaultChoices(1) :
                    LET e == updateHostsTable(r.actorHostID, r.LastHealthCheck, fail)
                    IN  /\ events' = Spend(1, fail)
                        /\ pc' = [pc EXCEPT ![p] = "done"]
                        /\ ret' = [ret EXCEPT ![p] = Return(e, NoHostID)]
                        /\ hosts' = IF e = "nil"
                                    THEN HostsWithHealthCheck(r.actorHostID,
                                                              r.LastHealthCheck)
                                    ELSE hosts
                        /\ tx' = tx
           ELSE /\ \E fail \in FaultChoices(1) :
                    /\ events' = Spend(1, fail)
                    /\ executeInTransaction_Begin(p, "upd_host", fail)
                /\ hosts' = hosts
    /\ UNCHANGED <<hat, actors, nextId, loc, placed>>
    /\ UNCHANGED <<reminderStore, lifecycle>>

\* Update all hosts properties, besides the list of supported actor types
\* (updateHostsTable on the transaction).
UpdateActorHost_UpdateHost(p) ==
    /\ pc[p] = "upd_host"
    /\ args[p].LastHealthCheck # NilTime => ~HostRowLocked(p, args[p].actorHostID)
    /\ \E fail \in (IF args[p].LastHealthCheck = NilTime THEN {FALSE} ELSE FaultChoices(0)) :
        LET id == args[p].actorHostID
            hc == args[p].LastHealthCheck
            e == updateHostsTable(id, hc, fail)
        IN  /\ events' = Spend(0, fail)
            /\ IF e # "nil"
               THEN /\ BodyFails(p, e, NoHostID)
                    /\ tx' = tx
               ELSE /\ pc' = [pc EXCEPT ![p] = "upd_delete"]
                    /\ ret' = ret
                    /\ tx' = IF hc = NilTime THEN tx
                             ELSE [tx EXCEPT ![p].hc = @ \cup {[host_id |-> id, hc |-> hc]}]
    /\ UNCHANGED <<hosts, hat, actors, nextId, args, loc, placed>>
    /\ UNCHANGED <<reminderStore, lifecycle>>

\* Next, delete all existing actor types: DELETE FROM hosts_actor_types WHERE
\* host_id = id.  The statement is sent on the pool (p.db.Exec), not on the
\* transaction, so it is committed when it returns.
UpdateActorHost_DeleteTypes(p) ==
    /\ pc[p] = "upd_delete"
    /\ \E fail \in FaultChoices(0) :
        /\ events' = Spend(0, fail)
        /\ IF fail
           THEN /\ BodyFails(p, "StoreFailure", NoHostID)
                /\ hat' = hat
           ELSE /\ pc' = [pc EXCEPT ![p] = "upd_types"]
                /\ ret' = ret
                /\ hat' = HatWithout(args[p].actorHostID)
    /\ loc' = [loc EXCEPT ![p].wrote = @ \/ hat' # hat]
    /\ UNCHANGED <<hosts, actors, nextId, args, tx, placed>>
    /\ UNCHANGED <<reminderStore, lifecycle>>

\* Register the new supported actor types (if any).
UpdateActorHost_InsertTypes(p) ==
    /\ pc[p] = "upd_types"
    /\ ~HatKeyPending(p, args[p].actorHostID, Range(args[p].ActorTypes))
    /\ \E fail \in (IF Len(args[p].ActorTypes) = 0 THEN {FALSE} ELSE FaultChoices(0)) :
        LET id == args[p].actorHostID
            e == insertHostActorTypes(p, id, args[p].ActorTypes, fail)
        IN  /\ events' = Spend(0, fail)
            /\ IF e # ErrNone
               THEN /\ BodyFails(p, "StoreFailure", NoHostID)
                    /\ tx' = tx
               ELSE /\ pc' = [pc EXCEPT ![p] = "commit"]
                    /\ ret' = ret
                    /\ tx' = [tx EXCEPT ![p].hat =
                                @ \cup {HatRow(id, t) : t \in Range(args[p].ActorTypes)}]
    /\ UNCHANGED <<hosts, hat, actors, nextId, args, loc, placed>>
    /\ UNCHANGED <<reminderStore, lifecycle>>

\* ---------------------------------------------------- RemoveActorHost
\* (a result that ignores the number of rows affected)
RemoveActorHostResultSilent(found) == "nil"
\* if res.RowsAffected() == 0 { return ErrActorHostNotFound }; return nil
RemoveActorHostResult(found) == IF ~found THEN "HostNotFound" ELSE "nil"

RemoveActorHost(p) ==
    /\ pc[p] = "idle"
    /\ events < MaxEvents
    /\ \E id \in HostIDs \cup {NoHostID} :
        /\ args' = [args EXCEPT ![p] = [op |-> "RemoveActorHost", actorHostID |-> id]]
        /\ pc' = [pc EXCEPT ![p] = "done"]
        /\ IF id = NoHostID
           THEN /\ ret' = [ret EXCEPT ![p] = Return("InvalidRequest", NoHostID)]
                /\ UNCHANGED <<hosts, hat, actors, placed>>
                /\ events' = events + 1
           ELSE /\ HostExists(id) => ~(HostRowLocked(p, id) \/ HostKeyShared(p, id))
                /\ \E fail \in FaultChoices(1) :
                    LET e == IF fail THEN "StoreFailure"
                             ELSE RemoveActorHostResult(HostExists(id))
                    IN  /\ events' = Spend(1, fail)
                        /\ ret' = [ret EXCEPT ![p] = Return(e, NoHostID)]
                        /\ IF e = "nil"
                           THEN /\ hosts' = HostsWithout(id)
                                /\ hat' = HatWithout(id)
                                /\ actors' = ActorsWithout(id)
                                /\ placed' =
                                     [a \in Pairs |->
                                        IF \E r \in actors : /\ r.host_id = id
                                                             /\ r.actor_type = a[1]
                                                             /\ r.actor_id = a[2]
                                        THEN NoRow ELSE placed[a]]
                           ELSE UNCHANGED <<hosts, hat, actors, placed>>
    /\ UNCHANGED <<nextId, loc, tx>>
    /\ UNCHANGED <<reminderStore, lifecycle>>

\* -------------------------------------------------------- RemoveActor
ActorRefs == Pairs \cup {<<"", "id1">>, <<"cat", "">>}
\* (a validation that checks the actor type only)
ActorRefInvalidTypeOnly(ref) == ref[1] = ""
ActorRefInvalid(ref) == ref[1] = "" \/ ref[2] = ""
ActorRows(ref) == {r \in actors : r.actor_type = ref[1] /\ r.actor_id = ref[2]}

RemoveActor(p) ==
    /\ pc[p] = "idle"
    /\ events < MaxEvents
    /\ \E ref \in ActorRefs :
        /\ args' = [args EXCEPT ![p] = [op |-> "RemoveActor", ref |-> ref]]
        /\ pc' = [pc EXCEPT ![p] = "done"]
        /\ IF ActorRefInvalid(ref)
           THEN /\ ret' = [ret EXCEPT ![p] = Return("InvalidRequest", NoHostID)]
                /\ UNCHANGED <<actors, placed>>
                /\ events' = events + 1
           ELSE \E fail \in FaultChoices(1) :
                    LET e == IF fail THEN "StoreFailure"
                             ELSE IF ActorRows(ref) = {} THEN "ActorNotFound" ELSE "nil"
                    IN  /\ events' = Spend(1, fail)
                        /\ ret' = [ret EXCEPT ![p] = Return(e, NoHostID)]
                        /\ IF e = "nil"
                           THEN /\ actors' = actors \ ActorRows(ref)
                                /\ placed' = [placed EXCEPT ![ref] = NoRow]
                           ELSE UNCHANGED <<actors, placed>>
    /\ UNCHANGED <<hosts, hat, nextId, loc, tx>>
    /\ UNCHANGED <<reminderStore, lifecycle>>

\* -------------------------------------------------------- LookupActor
\* The row the query returns for an actor hosted by host row h: the host's
\* application ID, its address, and the idle timeout of the assignment.
Response(h, idle) == <<h.host_app_id, h.host_address, idle>>

\* (the first two destinations swapped)
ScanSwapped(row) == [AppID |-> row[2], Address |-> row[1], IdleTimeout |-> row[3]]
\* .Scan(&res.AppID, &res.Address, &res.IdleTimeout)
Scan(row) == [AppID |-> row[1], Address |-> row[2], IdleTimeout |-> row[3]]

\* (any declaration, whatever its type)
LookupCandidatesAnyType(t) == hat
\* The hosts_actor_types rows of the hosts that can host actors of type t.
LookupCandidates(t) == {r \in hat : r.actor_type = t}

\* errors.Is(err, pgx.ErrNoRows)
ErrNoRows == "no_rows"
\* (a check that recognises no error)
isNoRowsNever(e) == FALSE
isNoRows(e) == e = ErrNoRows

\* for i := 0; i < 3; i++
LookupAttempts == 3
\* (a loop with no bound)
LookupLoopForever(i) == TRUE
\* (a loop that gives up after the first attempt)
LookupLoopOnce(i) == i < 1
LookupLoop(i) == i < LookupAttempts

\* The call and its validation.
LookupActor(p) ==
    /\ pc[p] = "idle"
    /\ events < MaxEvents
    /\ events' = events + 1
    /\ \E ref \in ActorRefs :
        /\ args' = [args EXCEPT ![p] = [op |-> "LookupActor", ref |-> ref]]
        /\ IF ActorRefInvalid(ref)
           THEN /\ pc' = [pc EXCEPT ![p] = "done"]
                /\ ret' = [ret EXCEPT ![p] = ReturnRes("InvalidRequest", EmptyRes)]
           ELSE /\ pc' = [pc EXCEPT ![p] = "lk_query"]
                /\ ret' = ret
    /\ UNCHANGED <<hosts, hat, actors, nextId, loc, tx, placed>>
    /\ UNCHANGED <<reminderStore, lifecycle>>

\* What the loop body does with the outcome (err, row) of QueryRow(...).Scan(...).
LookupActor_Handle(p, e, row) ==
    IF e = ErrNone
    THEN \* break, and return res, nil
         /\ pc' = [pc EXCEPT ![p] = "done"]
         /\ ret' = [ret EXCEPT ![p] = ReturnRes("nil", Scan(row))]
    ELSE IF isNoRows(e)
    THEN /\ pc' = [pc EXCEPT ![p] = "done"]
         /\ ret' = [ret EXCEPT ![p] = ReturnRes("NoActorHost", EmptyRes)]
    ELSE IF isUniqueViolationError(e)
    THEN /\ pc' = [pc EXCEPT ![p] = "lk_backoff"]
         /\ ret' = ret
    ELSE /\ pc' = [pc EXCEPT ![p] = "done"]
         /\ ret' = [ret EXCEPT ![p] = ReturnRes("StoreFailure", EmptyRes)]

\* lookupActorQuery, first half: the statement reads its snapshot.  With a row for
\* the actor it returns the row's host; with none, and no host for the type, it
\* returns no rows; otherwise it picks a host for the row it is about to insert.
LookupActor_Query(p) ==
    /\ pc[p] = "lk_query"
    /\ \E fail \in FaultChoices(0) :
        LET ref == args[p].ref
            rows == ActorRows(ref)
        IN  /\ events' = Spend(0, fail)
            /\ IF fail
               THEN /\ LookupActor_Handle(p, ErrOther, <<>>)
                    /\ UNCHANGED <<loc, placed>>
               ELSE IF rows # {}
               THEN LET r == CHOOSE x \in rows : TRUE
                        row == Response(HostOf(r.host_id), r.actor_idle_timeout)
                    IN  /\ LookupActor_Handle(p, ErrNone, row)
                        /\ loc' = [loc EXCEPT ![p].hostID = r.host_id, ![p].row = row]
                        /\ placed' = [placed EXCEPT ![ref] = row]
               ELSE IF LookupCandidates(ref[1]) = {}
               THEN /\ LookupActor_Handle(p, ErrNoRows, <<>>)
                    /\ UNCHANGED <<loc, placed>>
               ELSE \E c \in LookupCandidates(ref[1]) :
                    /\ pc' = [pc EXCEPT ![p] = "lk_insert"]
                    /\ loc' = [loc EXCEPT ![p].hostID = c.host_id,
                                          ![p].row = Response(HostOf(c.host_id),
                                                              c.actor_idle_timeout)]
                    /\ UNCHANGED <<ret, placed>>
    /\ UNCHANGED <<hosts, hat, actors, nextId, args, tx>>
    /\ UNCHANGED <<reminderStore, lifecycle>>

\* (no unique index on (actor_type, actor_id))
InsertActorErrorNoIndex(ref, id) == IF ~HostExists(id) THEN ErrForeignKey ELSE ErrNone
\* The error of the INSERT into actors of a row for ref on host id: the row must
\* be the only one of the actor, and the host must exist.
InsertActorError(ref, id) ==
    IF ActorRows(ref) # {} THEN ErrUniqueViolation
    ELSE IF ~HostExists(id) THEN ErrForeignKey
    ELSE ErrNone

\* lookupActorQuery, second half: the statement inserts the row it decided on and
\* returns it, or fails.
LookupActor_Insert(p) ==
    /\ pc[p] = "lk_insert"
    /\ LET ref == args[p].ref
           e == InsertActorError(ref, loc[p].hostID)
       IN  /\ LookupActor_Handle(p, e, loc[p].row)
           /\ IF e = ErrNone
              THEN /\ actors' = actors \cup {ActorRow(ref[1], ref[2], loc[p].hostID,
                                                      loc[p].row[3])}
                   /\ placed' = [placed EXCEPT ![ref] = loc[p].row]
              ELSE UNCHANGED <<actors, placed>>
    /\ UNCHANGED <<hosts, hat, nextId, args, loc, tx, events>>
    /\ UNCHANGED <<reminderStore, lifecycle>>

\* (a wait that does not watch the context)
SelectBackoffTimerOnly(cancelled) == "time.After"
\* select { case <-time.After(50ms): ... case <-ctx.Done(): ... }: the case taken.
SelectBackoff(cancelled) == IF cancelled THEN "ctx.Done" ELSE "time.After"

\* The wait after a unique violation: 50ms, or the caller's context is done.
\* Then the next turn of the loop, or the end of it (return res, nil).
LookupActor_Backoff(p) ==
    /\ pc[p] = "lk_backoff"
    /\ \E cancelled \in FaultChoices(0) :
        /\ events' = Spend(0, cancelled)
        /\ IF SelectBackoff(cancelled) = "ctx.Done"
           THEN /\ pc' = [pc EXCEPT ![p] = "done"]
                /\ ret' = [ret EXCEPT ![p] = ReturnRes("Cancelled", EmptyRes)]
                /\ loc' = loc
           ELSE /\ loc' = [loc EXCEPT ![p].i = @ + 1]
                /\ IF LookupLoop(loc[p].i + 1)
                   THEN /\ pc' = [pc EXCEPT ![p] = "lk_query"]
                        /\ ret' = ret
                   ELSE /\ pc' = [pc EXCEPT ![p] = "done"]
                        /\ ret' = [ret EXCEPT ![p] = ReturnRes("nil", EmptyRes)]
    /\ UNCHANGED <<hosts, hat, actors, nextId, args, tx, placed>>
    /\ UNCHANGED <<reminderStore, lifecycle>>

\* The caller takes the result and is free for its next call.
Returned(p) ==
    /\ pc[p] = "done"
    /\ pc' = [pc EXCEPT ![p] = "idle"]
    /\ args' = [args EXCEPT ![p] = NoArgs]
    /\ loc' = [loc EXCEPT ![p] = NoLoc]
    /\ ret' = [ret EXCEPT ![p] = NoRet]
    /\ UNCHANGED <<hosts, hat, actors, nextId, tx, placed, events>>
    /\ UNCHANGED <<reminderStore, lifecycle>>

Next ==
    \/ \E p \in Procs : AddActorHost(p)
    \/ \E p \in Procs : AddActorHost_InsertHost(p)
    \/ \E p \in Procs : AddActorHost_InsertTypes(p)
    \/ \E p \in Procs : UpdateActorHost(p)
    \/ \E p \in Procs : UpdateActorHost_UpdateHost(p)
    \/ \E p \in Procs : UpdateActorHost_DeleteTypes(p)
    \/ \E p \in Procs : UpdateActorHost_InsertTypes(p)
    \/ \E p \in Procs : RemoveActorHost(p)
    \/ \E p \in Procs : LookupActor(p)
    \/ \E p \in Procs : LookupActor_Query(p)
    \/ \E p \in Procs : LookupActor_Insert(p)
    \/ \E p \in Procs : LookupActor_Backoff(p)
    \/ \E p \in Procs : RemoveActor(p)
    \/ \E p \in Procs : executeInTransaction_Commit(p)
    \/ \E p \in Procs : executeInTransaction_Rollback(p)
    \/ \E p \in Procs : Returned(p)

Spec == Init /\ [][Next]_vars

\* ------------------------------------------- concurrent first lookups
\* The committed tables after the registrations reqs (a sequence of valid
\* AddActorHost requests with distinct (address, app ID)) have succeeded in order.
HostsAfter(reqs) ==
    {HostRow(i, reqs[i].Address, reqs[i].AppID, reqs[i].ApiLevel, CurrentTimestamp) :
        i \in 1..Len(reqs)}
HatAfter(reqs) ==
    UNION {{HatRow(i, t) : t \in Range(reqs[i].ActorTypes)} : i \in 1..Len(reqs)}
Registrations ==
    {reqs \in UNION {[1..n -> {r \in AddRequests : ~AddActorHostInvalid(r)}] :
                        n \in 0..MaxHostIds} :
        \A i, j \in 1..Len(reqs) : i # j => reqs[i].Address # reqs[j].Address}

\* NumCallers callers have each just called LookupActor for an actor that has no
\* assignment; hosts are registered; no statement fails and no caller cancels.
InitLookup ==
    /\ \E reqs \in Registrations :
        /\ hosts = HostsAfter(reqs)
        /\ hat = HatAfter(reqs)
        /\ nextId = Len(reqs)
    /\ actors = {}
    /\ pc = [p \in 1..NumCallers |-> "lk_query"]
    /\ args \in [1..NumCallers -> {[op |-> "LookupActor", ref |-> a] : a \in Pairs}]
    /\ loc = [p \in 1..NumCallers |-> NoLoc]
    /\ tx = [p \in 1..NumCallers |-> NoTx]
    /\ ret = [p \in 1..NumCallers |-> NoRet]
    /\ placed = [a \in Pairs |-> NoRow]
    /\ events = MaxEvents
    /\ NoReminders(1..NumCallers)
    /\ Initialized(1..NumCallers)

NextLookup ==
    \/ \E p \in Procs : LookupActor_Query(p)
    \/ \E p \in Procs : LookupActor_Insert(p)
    \/ \E p \in Procs : LookupActor_Backoff(p)

SpecLookup == InitLookup /\ [][NextLookup]_vars

\* --------------------------------------------- lookups that retry
\* All callers but one have each just called LookupActor for the same unassigned
\* actor and hosts are registered; the last client is idle, and calls
\* LookupActor and RemoveActor one after the other.  Statements may fail and
\* callers may cancel.
OtherClient == {NumProcs}
InitRetry ==
    /\ \E reqs \in Registrations :
        /\ hosts = HostsAfter(reqs)
        /\ hat = HatAfter(reqs)
        /\ nextId = Len(reqs)
    /\ actors = {}
    /\ pc = [p \in 1..NumProcs |-> IF p \in OtherClient THEN "idle" ELSE "lk_query"]
    /\ \E r \in Pairs :
        args = [p \in 1..NumProcs |->
                   IF p \in OtherClient THEN NoArgs
                   ELSE [op |-> "LookupActor", ref |-> r]]
    /\ loc = [p \in 1..NumProcs |-> NoLoc]
    /\ tx = [p \in 1..NumProcs |-> NoTx]
    /\ ret = [p \in 1..NumProcs |-> NoRet]
    /\ placed = [a \in Pairs |-> NoRow]
    /\ events = 0
    /\ NoReminders(1..NumProcs)
    /\ Initialized(1..NumProcs)

NextRetry ==
    \/ \E p \in OtherClient : LookupActor(p)
    \/ \E p \in Procs : LookupActor_Query(p)
    \/ \E p \in Procs : LookupActor_Insert(p)
    \/ \E p \in Procs : LookupActor_Backoff(p)
    \/ \E p \in OtherClient : RemoveActor(p)
    \/ \E p \in OtherClient : Returned(p)

SpecRetry == InitRetry /\ [][NextRetry]_vars

\* A call under way takes its next step: every statement runs under a timeout
\* (context.WithTimeout) and the backoff ends after 50ms or with the context.
LookupStep(p) ==
    LookupActor_Query(p) \/ LookupActor_Insert(p) \/ LookupActor_Backoff(p)
SpecRetryFair ==
    SpecRetry /\ \A p \in 1..NumProcs : WF_vars(LookupStep(p))

\* ------------------------------------------------- one caller at a time
\* A single caller makes its calls one after the other.
SoleCaller == {1}
InitSeq ==
    /\ hosts = {}
    /\ hat = {}
    /\ actors = {}
    /\ nextId = 0
    /\ pc = [p \in SoleCaller |-> "idle"]
    /\ args = [p \in SoleCaller |-> NoArgs]
    /\ loc = [p \in SoleCaller |-> NoLoc]
    /\ tx = [p \in SoleCaller |-> NoTx]
    /\ ret = [p \in SoleCaller |-> NoRet]
    /\ placed = [a \in Pairs |-> NoRow]
    /\ events = 0
    /\ NoReminders(SoleCaller)
    /\ Initialized(SoleCaller)

\* With no other caller no insert of LookupActor meets a unique violation, so
\* the backoff is never entered.
NextSeq ==
    \/ \E p \in Procs : AddActorHost(p)
    \/ \E p \in Procs : AddActorHost_InsertHost(p)
    \/ \E p \in Procs : AddActorHost_InsertTypes(p)
    \/ \E p \in Procs : UpdateActorHost(p)
    \/ \E p \in Procs : UpdateActorHost_UpdateHost(p)
    \/ \E p \in Procs : UpdateActorHost_DeleteTypes(p)
    \/ \E p \in Procs : UpdateActorHost_InsertTypes(p)
    \/ \E p \in Procs : RemoveActorHost(p)
    \/ \E p \in Procs : LookupActor(p)
    \/ \E p \in Procs : LookupActor_Query(p)
    \/ \E p \in Procs : LookupActor_Insert(p)
    \/ \E p \in Procs : RemoveActor(p)
    \/ \E p \in Procs : executeInTransaction_Commit(p)
    \/ \E p \in Procs : executeInTransaction_Rollback(p)
    \/ \E p \in Procs : Returned(p)

SpecSeq == InitSeq /\ [][NextSeq]_vars

\* ------------------------------------------------------- the reminder store
\* The clock runs from 0 to MaxClock.
MaxClock == 2
\* Number of UUIDs (reminder IDs, lease IDs) the database generates in one run.
MaxUuids == 4
\* Number of reminder calls started in one run.
MaxCalls == 4
\* Largest batch size a fetcher asks for.
MaxBatch == 2
\* A lease older than this is stale.
LeaseDuration == 1
\* NULL in the lease columns; generated UUIDs and process IDs are 1, 2, ...
Null == 0

ReminderNames == {"r1"}
\* actorstore.ReminderRef{ActorType, ActorID, Name}
ReminderRefs == ActorTypeNames \X ActorIDs \X ReminderNames
\* The actor-type scopes of a fetch; the empty scope does not constrain.
Scopes == {{}, {"cat"}}

\* A row of the reminders table.
ReminderRow(id, ref, t, lid, lt, pid) ==
    [reminder_id |-> id, actor_type |-> ref[1], actor_id |-> ref[2],
     reminder_name |-> ref[3], reminder_execution_time |-> t,
     reminder_lease_id |-> lid, reminder_lease_time |-> lt, reminder_lease_pid |-> pid]
RefOf(r) == <<r.actor_type, r.actor_id, r.reminder_name>>
\* The rows with the composite key ref (at most one: the key is unique).
ReminderRows(ref) == {r \in reminders : RefOf(r) = ref}
\* The process identifier a caller leases under.
ProcessID(p) == p

\* CreateReminder: one INSERT; a duplicate of the composite key is a conflict.
CreateReminderResultUpsert(exists) == "nil"
CreateReminderResult(exists) == IF exists THEN "Conflict" ELSE "nil"
CreateReminder(p) ==
    /\ pc[p] = "idle"
    /\ events < MaxCalls
    /\ uuids < MaxUuids
    /\ \E ref \in ReminderRefs, t \in 0..MaxClock, fail \in FaultChoices(1) :
        LET e == IF fail THEN "StoreFailure"
                 ELSE CreateReminderResult(ReminderRows(ref) # {})
        IN  /\ args' = [args EXCEPT ![p] =
                            [op |-> "CreateReminder", ref |-> ref, ExecutionTime |-> t]]
            /\ events' = Spend(1, fail)
            /\ ret' = [ret EXCEPT ![p] = Return(e, NoHostID)]
            /\ IF e = "nil"
               THEN /\ reminders' = (reminders \ ReminderRows(ref)) \cup
                          {ReminderRow(uuids + 1, ref, t, Null, NilTime, Null)}
                    /\ uuids' = uuids + 1
               ELSE UNCHANGED <<reminders, uuids>>
    /\ pc' = [pc EXCEPT ![p] = "done"]
    /\ UNCHANGED <<hosts, hat, actors, nextId, loc, tx, placed>>
    /\ UNCHANGED <<clock, fetched, lifecycle>>

\* GetReminder: a point lookup by the composite key.
GetReminder(p) ==
    /\ pc[p] = "idle"
    /\ events < MaxCalls
    /\ \E ref \in ReminderRefs, fail \in FaultChoices(1) :
        LET e == IF fail THEN "StoreFailure"
                 ELSE IF ReminderRows(ref) = {} THEN "ReminderNotFound" ELSE "nil"
            t == IF e = "nil"
                 THEN (CHOOSE r \in ReminderRows(ref) : TRUE).reminder_execution_time
                 ELSE NilTime
        IN  /\ args' = [args EXCEPT ![p] = [op |-> "GetReminder", ref |-> ref]]
            /\ events' = Spend(1, fail)
            /\ ret' = [ret EXCEPT ![p] = ReturnReminder(e, t)]
    /\ pc' = [pc EXCEPT ![p] = "done"]
    /\ UNCHANGED <<hosts, hat, actors, nextId, loc, tx, placed>>
    /\ UNCHANGED <<reminderStore, lifecycle>>

\* DeleteReminder: one DELETE by the composite key.
DeleteReminder(p) ==
    /\ pc[p] = "idle"
    /\ events < MaxCalls
    /\ \E ref \in ReminderRefs, fail \in FaultChoices(1) :
        LET e == IF fail THEN "StoreFailure"
                 ELSE IF ReminderRows(ref) = {} THEN "ReminderNotFound" ELSE "nil"
        IN  /\ args' = [args EXCEPT ![p] = [op |-> "DeleteReminder", ref |-> ref]]
            /\ events' = Spend(1, fail)
            /\ ret' = [ret EXCEPT ![p] = Return(e, NoHostID)]
            /\ reminders' = IF e = "nil" THEN reminders \ ReminderRows(ref)
                            ELSE reminders
    /\ pc' = [pc EXCEPT ![p] = "done"]
    /\ UNCHANGED <<hosts, hat, actors, nextId, loc, tx, placed>>
    /\ UNCHANGED <<clock, uuids, fetched, lifecycle>>

\* Fetch-and-lease.  A reminder is due when its execution time is not after
\* the current time.
Due(r) == r.reminder_execution_time <= clock
IsLeased(r) == r.reminder_lease_id # Null
\* A lease is stale when it was acquired longer ago than the threshold.
LeaseStaleNever(r) == FALSE
LeaseStale(r) == IsLeased(r) /\ clock - r.reminder_lease_time > LeaseDuration
InScope(r, types) == types = {} \/ r.actor_type \in types
EligibleIgnoringLease(r, types) == Due(r) /\ InScope(r, types)
Eligible(r, types) ==
    /\ Due(r)
    /\ ~IsLeased(r) \/ LeaseStale(r)
    /\ InScope(r, types)
\* The batches of at most n rows of rs that a LIMIT n may select.
Min(a, b) == IF a < b THEN a ELSE b
BatchesUnlimited(rs, n) == {rs}
Batches(rs, n) == {S \in SUBSET rs : Cardinality(S) = Min(n, Cardinality(rs))}
\* Row r with a lease: the k-th UUID generated by the statement, the current
\* time and the process identifier of the fetcher.
LeasedWithoutPid(r, lid, pid) ==
    [r EXCEPT !.reminder_lease_id = lid, !.reminder_lease_time = clock]
Leased(r, lid, pid) ==
    [r EXCEPT !.reminder_lease_id = lid, !.reminder_lease_time = clock,
              !.reminder_lease_pid = pid]
\* The position of row r among the rows S of a batch.
Rank(r, S) == Cardinality({x \in S : x.reminder_id <= r.reminder_id})

\* A fetcher calls fetch-and-lease with a batch size and a scope.
FetchReminders(p) ==
    /\ pc[p] = "idle"
    /\ events < MaxCalls
    /\ \E n \in 1..MaxBatch, types \in Scopes :
        args' = [args EXCEPT ![p] = [op |-> "FetchReminders", batch |-> n, types |-> types]]
    /\ pc' = [pc EXCEPT ![p] = "fr_exec"]
    /\ ret' = [ret EXCEPT ![p] = NoRet]
    /\ events' = events + 1
    /\ UNCHANGED <<hosts, hat, actors, nextId, loc, tx, placed>>
    /\ UNCHANGED <<reminderStore, lifecycle>>

\* The stored function runs: one atomic statement selects the batch and marks
\* it leased.
FetchReminders_Exec(p) ==
    /\ pc[p] = "fr_exec"
    /\ \E fail \in FaultChoices(0) :
        /\ events' = Spend(0, fail)
        /\ IF fail
           THEN /\ ret' = [ret EXCEPT ![p] = Return("StoreFailure", NoHostID)]
                /\ UNCHANGED <<reminders, uuids, fetched>>
           ELSE \E S \in Batches({r \in reminders : Eligible(r, args[p].types)},
                                 args[p].batch) :
                   LET leased == {Leased(r, uuids + Rank(r, S), ProcessID(p)) : r \in S}
                   IN  /\ uuids + Cardinality(S) <= MaxUuids
                       /\ reminders' = (reminders \ S) \cup leased
                       /\ uuids' = uuids + Cardinality(S)
                       /\ fetched' = [fetched EXCEPT ![p].rows = leased, ![p].at = clock]
                       /\ ret' = [ret EXCEPT ![p] = Return("nil", NoHostID)]
    /\ pc' = [pc EXCEPT ![p] = "done"]
    /\ UNCHANGED <<hosts, hat, actors, nextId, args, loc, tx, placed>>
    /\ UNCHANGED <<clock, lifecycle>>

\* After delivery the fetcher releases a lease it holds: the lease columns of
\* the row are cleared if the row still carries that lease.
Released(r) ==
    [r EXCEPT !.reminder_lease_id = Null, !.reminder_lease_time = NilTime,
              !.reminder_lease_pid = Null]
ReleaseLease(p) ==
    /\ pc[p] = "idle"
    /\ events < MaxCalls
    /\ \E r \in fetched[p].rows :
        /\ args' = [args EXCEPT ![p] = [op |-> "ReleaseLease", id |-> r.reminder_id]]
        /\ reminders' = IF r \in reminders
                        THEN (reminders \ {r}) \cup {Released(r)}
                        ELSE reminders
        /\ fetched' = [fetched EXCEPT ![p].rows = @ \ {r}]
    /\ pc' = [pc EXCEPT ![p] = "done"]
    /\ ret' = [ret EXCEPT ![p] = Return("nil", NoHostID)]
    /\ events' = events + 1
    /\ UNCHANGED <<hosts, hat, actors, nextId, loc, tx, placed>>
    /\ UNCHANGED <<clock, uuids, lifecycle>>

\* Time passes.
Tick ==
    /\ clock < MaxClock
    /\ clock' = clock + 1
    /\ UNCHANGED <<hosts, hat, actors, nextId, pc, args, loc, tx, ret, placed, events>>
    /\ UNCHANGED <<reminders, uuids, fetched, lifecycle>>

InitReminders ==
    /\ hosts = {}
    /\ hat = {}
    /\ actors = {}
    /\ nextId = 0
    /\ pc = [p \in 1..NumProcs |-> "idle"]
    /\ args = [p \in 1..NumProcs |-> NoArgs]
    /\ loc = [p \in 1..NumProcs |-> NoLoc]
    /\ tx = [p \in 1..NumProcs |-> NoTx]
    /\ ret = [p \in 1..NumProcs |-> NoRet]
    /\ placed = [a \in Pairs |-> NoRow]
    /\ events = 0
    /\ NoReminders(1..NumProcs)
    /\ Initialized(1..NumProcs)

NextReminders ==
    \/ \E p \in Procs : CreateReminder(p)
    \/ \E p \in Procs : GetReminder(p)
    \/ \E p \in Procs : DeleteReminder(p)
    \/ \E p \in Procs : FetchReminders(p)
    \/ \E p \in Procs : FetchReminders_Exec(p)
    \/ \E p \in Procs : ReleaseLease(p)
    \/ \E p \in Procs : Returned(p)
    \/ Tick

SpecReminders == InitReminders /\ [][NextReminders]_vars

\* ------------------------------------------------- lifecycle of the store
\* Number of nested frames of Close the goroutine stack holds before the
\* runtime stops the process (stack overflow).
MaxStack == 3

\* The durations a "timeout" property decodes to.
Timeouts == {0 - Second, 0, 1, Second - 1, Second, Second + 1, 30 * Second}
\* The values of the "tablePrefix" and "metadataTableName" properties.
TablePrefixes == {"a_", "b_"}
MetadataTableNames == {"m1"}
\* A property of the map that may be absent: <<>>, or <<v>> for the value v.
Optional(S) == {<<>>} \cup {<<v>> : v \in S}
\* The property map of Init: the "timeout" property is absent, does not decode
\* to a duration, or decodes to the duration value; the connection string is
\* empty or not; the table prefix and the metadata table name are absent or
\* given.
Properties ==
    {pr \in [timeout : {"absent", "malformed", "duration"}, value : Timeouts,
             connectionString : {"", "postgres://db"},
             tablePrefix : Optional(TablePrefixes),
             metadataTableName : Optional(MetadataTableNames)] :
        pr.timeout # "duration" => pr.value = 0}

\* The timeout test of InitWithMetadata.
TimeoutInvalidZero(t) == t <= 0
TimeoutInvalid(t) == t < 1 * Second
\* (a reset that leaves the table prefix and the metadata table name)
ResetTimeoutOnly(m) == [m EXCEPT !.Timeout = 20 * Second]
\* Reset the object.
Reset(m) ==
    [m EXCEPT !.TablePrefix = "",
              !.MetadataTableName = "dapr_metadata",
              !.Timeout = 20 * Second]
\* metadata.DecodeMetadata: each property that is present is written to its
\* field, the other fields are left as they are; a value that does not decode
\* is an error.
DecodeMetadata(pr, m) ==
    IF pr.timeout = "malformed" THEN [err |-> "DecodeError", m |-> m]
    ELSE [err |-> "nil",
          m |-> [TablePrefix |-> IF pr.tablePrefix = <<>> THEN m.TablePrefix
                                 ELSE pr.tablePrefix[1],
                 MetadataTableName |-> IF pr.metadataTableName = <<>>
                                       THEN m.MetadataTableName
                                       ELSE pr.metadataTableName[1],
                 Timeout |-> IF pr.timeout = "duration" THEN pr.value
                             ELSE m.Timeout]]
\* pgMetadata.InitWithMetadata on the object m: the error, and the object it
\* leaves.
InitWithMetadata(m, pr) ==
    LET d == DecodeMetadata(pr, Reset(m))
    IN  IF d.err # "nil" THEN d
        ELSE IF pr.connectionString = "" THEN [err |-> "MissingConnectionString", m |-> d.m]
        ELSE IF TimeoutInvalid(d.m.Timeout) THEN [err |-> "InvalidTimeout", m |-> d.m]
        ELSE [err |-> "nil", m |-> d.m]

\* The tables of the store.
pgTables == {"hosts", "hosts_actor_types", "actors"}
\* (a table name without the prefix)
TableNameNoPrefix(m, table) == table
\* pgMetadata.TableName.
TableName(m, table) == m.TablePrefix \o table

\* p.running.CompareAndSwap(old, new) succeeds when the flag holds old.
CompareAndSwapBlind(flag, old) == TRUE
CompareAndSwap(flag, old) == flag = old

\* Init: the gate.
Init_Gate(p) ==
    /\ pc[p] = "idle"
    /\ \E pr \in Properties :
        args' = [args EXCEPT ![p] = [op |-> "Init", md |-> pr]]
    /\ IF ~CompareAndSwap(running, FALSE)
       THEN /\ ret' = [ret EXCEPT ![p] = Return("already running", NoHostID)]
            /\ pc' = [pc EXCEPT ![p] = "done"]
            /\ UNCHANGED <<running, passed>>
       ELSE /\ running' = TRUE
            /\ passed' = passed + 1
            /\ ret' = [ret EXCEPT ![p] = NoRet]
            /\ pc' = [pc EXCEPT ![p] = "in_parse"]
    /\ UNCHANGED <<hosts, hat, actors, nextId, loc, tx, placed, events>>
    /\ UNCHANGED <<reminderStore, db, metadata, frames>>

\* Init: parse the metadata.
Init_Parse(p) ==
    /\ pc[p] = "in_parse"
    /\ LET r == InitWithMetadata(metadata, args[p].md)
       IN  /\ metadata' = r.m
           /\ IF r.err # "nil"
              THEN /\ ret' = [ret EXCEPT ![p] = Return(r.err, NoHostID)]
                   /\ pc' = [pc EXCEPT ![p] = "done"]
              ELSE /\ pc' = [pc EXCEPT ![p] = "in_connect"]
                   /\ UNCHANGED ret
    /\ UNCHANGED <<hosts, hat, actors, nextId, args, loc, tx, placed, events>>
    /\ UNCHANGED <<reminderStore, running, db, frames, passed>>

\* Init: build the pool configuration and connect.
Init_Connect(p) ==
    /\ pc[p] = "in_connect"
    /\ \E failConfig \in BOOLEAN, failConnect \in BOOLEAN :
        IF failConfig
        THEN /\ ret' = [ret EXCEPT ![p] = Return("StoreFailure", NoHostID)]
             /\ pc' = [pc EXCEPT ![p] = "done"]
             /\ UNCHANGED db
        ELSE IF failConnect
        THEN /\ db' = "nil"
             /\ ret' = [ret EXCEPT ![p] = Return("StoreFailure", NoHostID)]
             /\ pc' = [pc EXCEPT ![p] = "done"]
        ELSE /\ db' = "open"
             /\ pc' = [pc EXCEPT ![p] = "in_ping"]
             /\ UNCHANGED ret
    /\ UNCHANGED <<hosts, hat, actors, nextId, args, loc, tx, placed, events>>
    /\ UNCHANGED <<reminderStore, running, metadata, frames, passed>>

\* The process ends with a runtime panic or a fatal error.
Crashed == [p \in Procs |-> "crashed"]

\* Ping, as called by a client and by Init: "not running" unless the flag
\* is set, else the result of db.Ping; on a nil pool that is a nil dereference.
PingResult(fail) ==
    IF ~running THEN "not running"
    ELSE IF db = "nil" THEN "panic"
    ELSE IF fail THEN "StoreFailure" ELSE "nil"

Init_Ping(p) ==
    /\ pc[p] = "in_ping"
    /\ \E fail \in BOOLEAN :
        LET e == PingResult(fail)
        IN  IF e = "panic" THEN pc' = Crashed /\ UNCHANGED ret
            ELSE IF e # "nil"
            THEN /\ ret' = [ret EXCEPT ![p] = Return(e, NoHostID)]
                 /\ pc' = [pc EXCEPT ![p] = "done"]
            ELSE /\ pc' = [pc EXCEPT ![p] = "in_migrate"]
                 /\ UNCHANGED ret
    /\ UNCHANGED <<hosts, hat, actors, nextId, args, loc, tx, placed, events>>
    /\ UNCHANGED <<reminderStore, lifecycle>>

\* Init: migrate the schema, and return.
Init_Migrate(p) ==
    /\ pc[p] = "in_migrate"
    /\ \E fail \in BOOLEAN :
        ret' = [ret EXCEPT ![p] =
                   Return(IF fail THEN "StoreFailure" ELSE "nil", NoHostID)]
    /\ pc' = [pc EXCEPT ![p] = "done"]
    /\ UNCHANGED <<hosts, hat, actors, nextId, args, loc, tx, placed, events>>
    /\ UNCHANGED <<reminderStore, lifecycle>>

Ping(p) ==
    /\ pc[p] = "idle"
    /\ args' = [args EXCEPT ![p] = [op |-> "Ping"]]
    /\ \E fail \in BOOLEAN :
        LET e == PingResult(fail)
        IN  IF e = "panic" THEN pc' = Crashed /\ UNCHANGED ret
            ELSE /\ ret' = [ret EXCEPT ![p] = Return(e, NoHostID)]
                 /\ pc' = [pc EXCEPT ![p] = "done"]
    /\ UNCHANGED <<hosts, hat, actors, nextId, loc, tx, placed, events>>
    /\ UNCHANGED <<reminderStore, lifecycle>>

\* One frame of Close: return nil unless running; with a pool, call Close
\* again; with none, return the zero error.
Close_Frame(p) ==
    IF ~running THEN "return"
    ELSE IF db # "nil" THEN "recurse"
    ELSE "return"

\* A client calls Close: the first frame.
Close(p) ==
    /\ pc[p] = "idle"
    /\ args' = [args EXCEPT ![p] = [op |-> "Close"]]
    /\ LET f == Close_Frame(p)
       IN  IF f = "return"
           THEN /\ ret' = [ret EXCEPT ![p] = Return("nil", NoHostID)]
                /\ pc' = [pc EXCEPT ![p] = "done"]
                /\ UNCHANGED frames
           ELSE /\ frames' = [frames EXCEPT ![p] = 1]
                /\ pc' = [pc EXCEPT ![p] = "cl_call"]
                /\ UNCHANGED ret
    /\ UNCHANGED <<hosts, hat, actors, nextId, loc, tx, placed, events>>
    /\ UNCHANGED <<reminderStore, running, db, metadata, passed>>

\* The call p.Close() inside Close: one more frame, which runs the same code;
\* when the stack is full the runtime ends the process.
Close_Recurse(p) ==
    /\ pc[p] = "cl_call"
    /\ LET f == Close_Frame(p)
       IN  IF frames[p] >= MaxStack
           THEN /\ pc' = Crashed
                /\ UNCHANGED <<ret, frames>>
           ELSE IF f = "return"
           THEN /\ ret' = [ret EXCEPT ![p] = Return("nil", NoHostID)]
                /\ pc' = [pc EXCEPT ![p] = "done"]
                /\ frames' = [frames EXCEPT ![p] = 0]
           ELSE /\ frames' = [frames EXCEPT ![p] = @ + 1]
                /\ UNCHANGED <<pc, ret>>
    /\ UNCHANGED <<hosts, hat, actors, nextId, args, loc, tx, placed, events>>
    /\ UNCHANGED <<reminderStore, running, db, metadata, passed>>

\* A new store object and its callers.
InitLifecycle ==
    /\ hosts = {}
    /\ hat = {}
    /\ actors = {}
    /\ nextId = 0
    /\ pc = [p \in 1..NumProcs |-> "idle"]
    /\ args = [p \in 1..NumProcs |-> NoArgs]
    /\ loc = [p \in 1..NumProcs |-> NoLoc]
    /\ tx = [p \in 1..NumProcs |-> NoTx]
    /\ ret = [p \in 1..NumProcs |-> NoRet]
    /\ placed = [a \in Pairs |-> NoRow]
    /\ events = 0
    /\ NoReminders(1..NumProcs)
    /\ Uninitialized(1..NumProcs)

NextLifecycle ==
    \/ \E p \in Procs : Init_Gate(p)
    \/ \E p \in Procs : Init_Parse(p)
    \/ \E p \in Procs : Init_Connect(p)
    \/ \E p \in Procs : Init_Ping(p)
    \/ \E p \in Procs : Init_Migrate(p)
    \/ \E p \in Procs : Ping(p)
    \/ \E p \in Procs : Close(p)
    \/ \E p \in Procs : Close_Recurse(p)
    \/ \E p \in Procs : Returned(p)

SpecLifecycle == InitLifecycle /\ [][NextLifecycle]_vars

\* ------------------------------------------------- metadata parsing
\* A caller parses a property map into the store's metadata object, which may
\* hold the result of an earlier parse.
InitWithMetadata_Call(p) ==
    /\ pc[p] = "idle"
    /\ \E pr \in Properties :
        LET r == InitWithMetadata(metadata, pr)
        IN  /\ args' = [args EXCEPT ![p] = [op |-> "InitWithMetadata", md |-> pr]]
            /\ metadata' = r.m
            /\ ret' = [ret EXCEPT ![p] = Return(r.err, NoHostID)]
    /\ pc' = [pc EXCEPT ![p] = "done"]
    /\ UNCHANGED <<hosts, hat, actors, nextId, loc, tx, placed, events>>
    /\ UNCHANGED <<reminderStore, running, db, frames, passed>>

NextMetadata ==
    \/ \E p \in Procs : InitWithMetadata_Call(p)
    \/ \E p \in Procs : Returned(p)

SpecMetadata == InitLifecycle /\ [][NextMetadata]_vars

\* ------------------------------------------------------------- claims
\* The response that names the host of assignment row r.
ResponseOfRow(r) ==
    [AppID |-> HostOf(r.host_id).host_app_id,
     Address |-> HostOf(r.host_id).host_address,
     IdleTimeout |-> r.actor_idle_timeout]

\* C1: when callers concurrently issue a first-time LookupActor for the same
\* actor and a host declares its type, every call that has returned has returned
\* no error and the host of the one assignment row of the actor: in no
\* interleaving does a call return a failure, an empty response or another host.
C1_ConcurrentFirstLookupsConverge ==
    \A p \in Procs :
        (pc[p] = "done" /\ LookupCandidates(args[p].ref[1]) # {}) =>
            /\ ret[p].err = "nil"
            /\ Cardinality(ActorRows(args[p].ref)) = 1
            /\ \A r \in ActorRows(args[p].ref) :
                /\ ret[p].res = ResponseOfRow(r)
                /\ loc[p].hostID = r.host_id
            /\ \A q \in Procs :
                (pc[q] = "done" /\ args[q].ref = args[p].ref) => ret[q] = ret[p]

\* Every caller has returned, all for the same actor, and one of them lost the
\* race for the insert and retried.
C1_Witness ==
    /\ \A p \in Procs : pc[p] = "done" /\ args[p].ref = args[1].ref
                                       /\ ret[p].err = "nil"
    /\ \E p \in Procs : loc[p].i = 1

\* Caller p takes a step (every action moves its caller's pc).
Acts(p) == pc'[p] # pc[p]
\* No failure is injected in the step.
NoFault == events' <= events + (IF \E p \in Procs : pc[p] = "idle" /\ Acts(p) THEN 1 ELSE 0)
IsLookup(p) == args[p].op = "LookupActor"
ResponseOf(row) == [AppID |-> row[1], Address |-> row[2], IdleTimeout |-> row[3]]

\* C2: in every reachable state there is at most one assignment row per
\* (actor type, actor ID).
C2_OneAssignmentPerActor ==
    \A r1, r2 \in actors :
        (r1.actor_type = r2.actor_type /\ r1.actor_id = r2.actor_id) => r1 = r2

\* A second insert for an assigned actor has been refused.
C2_Witness ==
    \E p \in Procs : pc[p] = "lk_backoff" /\ ActorRows(args[p].ref) # {}

\* C3: once a LookupActor has returned a host for an actor, and neither the
\* assignment nor that host has been removed since (placed records it), a
\* LookupActor whose query is issued then returns that same host, whatever hosts
\* were added or updated in between.
C3_LaterLookupsReturnSameHost ==
    [][\A p \in Procs :
        (pc[p] = "lk_query" /\ Acts(p) /\ NoFault /\ placed[args[p].ref] # NoRow) =>
            /\ pc'[p] = "done"
            /\ ret'[p].err = "nil"
            /\ ret'[p].res = ResponseOf(placed[args[p].ref])
            /\ placed' = placed]_vars

\* Two lookups of the same actor have returned the same host although two
\* hosts declare the actor's type.
C3_Witness ==
    \E p, q \in Procs :
        /\ p # q /\ pc[p] = "done" /\ pc[q] = "done"
        /\ IsLookup(p) /\ IsLookup(q) /\ args[p].ref = args[q].ref
        /\ ret[p].err = "nil" /\ ret[q] = ret[p] /\ loc[q].i = 0 /\ loc[p].i = 0
        /\ Cardinality({c.host_id : c \in LookupCandidates(args[p].ref[1])}) = 2

\* C4: a successful AddActorHost commits the host row and a declaration per
\* listed type; a LookupActor for an unassigned actor whose type only host H
\* declares, with idle timeout D, picks H; and when its insert succeeds it
\* returns H's application ID, H's address and D.
C4_AddThenLookupReturnsHost ==
    [][\A p \in Procs :
        /\ (pc[p] = "commit" /\ pc'[p] = "done" /\ args[p].op = "AddActorHost") =>
              \E h \in hosts' :
                  /\ h.host_id = ret'[p].hostID
                  /\ h.host_address = args[p].Address
                  /\ h.host_app_id = args[p].AppID
                  /\ \A t \in Range(args[p].ActorTypes) : HatRow(h.host_id, t) \in hat'
        /\ (/\ pc[p] = "lk_query" /\ Acts(p) /\ NoFault
            /\ ActorRows(args[p].ref) = {}
            /\ Cardinality(LookupCandidates(args[p].ref[1])) = 1) =>
              \A c \in LookupCandidates(args[p].ref[1]) :
                  /\ pc'[p] = "lk_insert"
                  /\ loc'[p].hostID = c.host_id
                  /\ loc'[p].row = <<HostOf(c.host_id).host_app_id,
                                      HostOf(c.host_id).host_address,
                                      c.actor_idle_timeout>>
        /\ (pc[p] = "lk_insert" /\ pc'[p] = "done" /\ ret'[p].err = "nil") =>
              /\ ret'[p].res = ResponseOf(loc[p].row)
              /\ ret'[p].res.AppID = HostOf(loc[p].hostID).host_app_id
              /\ ret'[p].res.Address = HostOf(loc[p].hostID).host_address]_vars

\* One host is registered, after one AddActorHost, and the one LookupActor made
\* has returned it.
C4_Witness ==
    \E p \in Procs :
        /\ pc[p] = "done" /\ IsLookup(p) /\ ret[p].err = "nil" /\ events = 2
        /\ \E h \in hosts : hosts = {h} /\ ret[p].res.Address = h.host_address
                            /\ ret[p].res.IdleTimeout = 60

\* C5: LookupActor returns the host of the actor's assignment row when there is
\* one, and creates no row; otherwise the host it picks has, when the query reads
\* the tables, a declaration for the actor's type, and the one row it creates is
\* for that host, which it returns.  No other step of a lookup touches the table.
C5_LookupResolution ==
    [][\A p \in Procs :
        /\ (pc[p] = "lk_query" /\ Acts(p)) =>
              /\ actors' = actors
              /\ (NoFault /\ ActorRows(args[p].ref) # {}) =>
                    /\ pc'[p] = "done" /\ ret'[p].err = "nil"
                    /\ \A r \in ActorRows(args[p].ref) : ret'[p].res = ResponseOfRow(r)
              /\ pc'[p] = "lk_insert" =>
                    /\ ActorRows(args[p].ref) = {}
                    /\ \E c \in hat : /\ c.host_id = loc'[p].hostID
                                      /\ c.actor_type = args[p].ref[1]
                                      /\ c.actor_idle_timeout = loc'[p].row[3]
        /\ (pc[p] = "lk_insert" /\ Acts(p)) =>
              IF pc'[p] = "done" /\ ret'[p].err = "nil"
              THEN /\ ActorRows(args[p].ref) = {}
                   /\ actors' = actors \cup {ActorRow(args[p].ref[1], args[p].ref[2],
                                                      loc[p].hostID, loc[p].row[3])}
                   /\ \A r \in actors' \ actors : ret'[p].res = ResponseOfRow(r)
              ELSE actors' = actors
        /\ (pc[p] \in {"lk_backoff"} /\ Acts(p)) => actors' = actors
        /\ (pc[p] = "idle" /\ Acts(p) /\ args'[p].op = "LookupActor") => actors' = actors
      ]_vars

\* A lookup has created the row of its actor on a host that declares the type,
\* while another host declares another type only.
C5_Witness ==
    \E p \in Procs :
        /\ pc[p] = "done" /\ IsLookup(p) /\ ret[p].err = "nil"
        /\ args[p].ref[1] = "dog"
        /\ \E r \in actors : r.actor_type = "dog" /\ r.host_id = loc[p].hostID
        /\ \E c \in hat : c.host_id # loc[p].hostID

\* C6: when the actor has no assignment and no host declares its type, the
\* query of LookupActor ends the call with NoActorHost: no backoff, no further
\* attempt, and the three tables as they were.
C6_NoActorHost ==
    [][\A p \in Procs :
        (/\ pc[p] = "lk_query" /\ Acts(p) /\ NoFault
         /\ ActorRows(args[p].ref) = {}
         /\ LookupCandidates(args[p].ref[1]) = {}) =>
            /\ pc'[p] = "done"
            /\ ret'[p] = ReturnRes("NoActorHost", EmptyRes)
            /\ loc'[p] = loc[p]
            /\ UNCHANGED <<hosts, hat, actors>>]_vars

\* A lookup has failed with NoActorHost on its first attempt while a host is
\* registered (for another type).
C6_Witness ==
    \E p \in Procs :
        /\ pc[p] = "done" /\ IsLookup(p) /\ ret[p].err = "NoActorHost"
        /\ loc[p].i = 0 /\ hosts # {}

\* C7: the step in which RemoveActorHost(H) succeeds leaves no host row, no
\* declaration and no assignment of H; a LookupActor that returns a host returns
\* one that exists, hence none that was removed; and with no assignment and no
\* host declaring the type it returns NoActorHost.
C7_RemoveActorHostCascades ==
    [][\A p \in Procs :
        /\ (/\ pc[p] = "idle" /\ pc'[p] = "done" /\ args'[p].op = "RemoveActorHost"
            /\ ret'[p].err = "nil") =>
              /\ HostExists(args'[p].actorHostID)
              /\ \A h \in hosts' : h.host_id # args'[p].actorHostID
              /\ \A r \in hat' : r.host_id # args'[p].actorHostID
              /\ \A r \in actors' : r.host_id # args'[p].actorHostID
        /\ (/\ pc[p] \in {"lk_query", "lk_insert"} /\ pc'[p] = "done"
            /\ ret'[p].err = "nil") =>
              /\ \E h \in hosts' : /\ h.host_id = loc'[p].hostID
                                   /\ ret'[p].res.AppID = h.host_app_id
                                   /\ ret'[p].res.Address = h.host_address
              /\ \E r \in actors' : /\ r.host_id = loc'[p].hostID
                                    /\ r.actor_type = args[p].ref[1]
                                    /\ r.actor_id = args[p].ref[2]
        /\ (/\ pc[p] = "lk_query" /\ Acts(p) /\ NoFault
            /\ ActorRows(args[p].ref) = {}
            /\ LookupCandidates(args[p].ref[1]) = {}) =>
              ret'[p].err = "NoActorHost"]_vars

\* A lookup returned host 1 for an actor; host 1 has since been removed, and the
\* next lookup for the same actor returned NoActorHost.
C7_Witness ==
    \E p, q \in Procs :
        /\ pc[p] = "done" /\ IsLookup(p) /\ ret[p].err = "nil" /\ loc[p].hostID = 1
        /\ ~HostExists(1)
        /\ pc[q] = "done" /\ IsLookup(q) /\ args[q].ref = args[p].ref
        /\ ret[q].err = "NoActorHost"

\* C8: with a host registered under an (address, application ID), the INSERT of
\* a second AddActorHost for the same combination makes the call fail with the
\* host-conflict error and no host ID, and neither that step nor the rollback
\* after it changes any table.
C8_DuplicateHostConflict ==
    [][\A p \in Procs :
        /\ (/\ pc[p] = "add_host" /\ Acts(p) /\ NoFault
            /\ \E h \in hosts : /\ h.host_address = args[p].Address
                                /\ h.host_app_id = args[p].AppID) =>
              /\ pc'[p] = "rollback"
              /\ ret'[p] = Return("HostConflict", NoHostID)
              /\ tx'[p] = OpenTx
              /\ UNCHANGED <<hosts, hat, actors>>
        /\ (pc[p] = "rollback" /\ Acts(p) /\ ret[p].err = "HostConflict") =>
              /\ pc'[p] = "done"
              /\ ret'[p] = ret[p]
              /\ UNCHANGED <<hosts, hat, actors>>]_vars

\* A second registration of an (address, application ID) has returned the
\* conflict while the first host is registered.
C8_Witness ==
    \E p \in Procs :
        /\ pc[p] = "done" /\ args[p].op = "AddActorHost"
        /\ ret[p] = Return("HostConflict", NoHostID)
        /\ \E h \in hosts : /\ h.host_address = args[p].Address
                            /\ h.host_app_id = args[p].AppID
        /\ Cardinality(hosts) = 1

\* C9: when AddActorHost has returned an error after its host row was inserted
\* (the insert of the declarations or the commit failed), the hosts table holds
\* no row of that host and no declaration refers to it.
C9_AddActorHostAllOrNothing ==
    \A p \in Procs :
        (/\ pc[p] = "done" /\ args[p].op = "AddActorHost"
         /\ ret[p].err # "nil" /\ loc[p].hostID # NoHostID) =>
            /\ \A h \in hosts : h.host_id # loc[p].hostID
            /\ \A r \in hat : r.host_id # loc[p].hostID

\* An AddActorHost has returned the commit's failure after both inserts.
C9_Witness ==
    \E p \in Procs :
        /\ pc[p] = "done" /\ args[p].op = "AddActorHost"
        /\ ret[p].err = "CommitFailed" /\ loc[p].hostID # NoHostID

\* C10: when UpdateActorHost with an actor-type list has returned an error, no
\* statement of the call has changed the committed rows (the host's declarations
\* and health-check timestamp are as they were before the call).
C10_UpdateActorHostAllOrNothing ==
    \A p \in Procs :
        (/\ pc[p] = "done" /\ args[p].op = "UpdateActorHost"
         /\ ~args[p].ActorTypesNil /\ ret[p].err # "nil") =>
            ~loc[p].wrote

IsUpdate(p) == args[p].op = "UpdateActorHost"
\* The declarations of host id in the committed table h.
DeclarationsOf(h, id) == {r \in h : r.host_id = id}

\* C11: for an existing host and a caller that is alone, a successful
\* UpdateActorHost with an actor-type list leaves the host with exactly the
\* declarations listed (none for an empty list), and one with no list and a
\* health-check timestamp leaves the declarations as they were.
C11_UpdateActorHostDeclarations ==
    [][\A p \in Procs :
        /\ (/\ pc[p] = "commit" /\ pc'[p] = "done" /\ IsUpdate(p)
            /\ HostExists(args[p].actorHostID)) =>
              /\ ret'[p].err = "nil"
              /\ DeclarationsOf(hat', args[p].actorHostID) =
                    {[host_id |-> args[p].actorHostID, actor_type |-> t.ActorType,
                      actor_idle_timeout |-> t.IdleTimeout] :
                        t \in Range(args[p].ActorTypes)}
        /\ (/\ pc[p] = "idle" /\ Acts(p) /\ args'[p].op = "UpdateActorHost"
            /\ args'[p].actorHostID # NoHostID
            /\ args'[p].ActorTypesNil /\ args'[p].LastHealthCheck # NilTime) =>
              hat' = hat]_vars

\* A host (registered with "cat", as every host is) has been updated with the
\* list ["dog"] and declares "dog" only; another update has emptied a host.
C11_Witness ==
    \E p \in Procs :
        /\ pc[p] = "done" /\ IsUpdate(p) /\ ret[p].err = "nil"
        /\ args[p].ActorTypes = <<>> /\ ~args[p].ActorTypesNil
        /\ HostExists(args[p].actorHostID)
        /\ DeclarationsOf(hat, args[p].actorHostID) = {}
        /\ \E h \in hosts : /\ h.host_id # args[p].actorHostID
                            /\ {r.actor_type : r \in DeclarationsOf(hat, h.host_id)} = {"dog"}

\* C12: UpdateActorHost with a valid request for a host ID that has no host row
\* returns HostNotFound (or the failure of a statement the database failed),
\* whichever fields are provided.
C12_UpdateUnknownHostNotFound ==
    \A p \in Procs :
        (/\ pc[p] = "done" /\ IsUpdate(p)
         /\ args[p].actorHostID # NoHostID
         /\ ~(args[p].LastHealthCheck = NilTime /\ args[p].ActorTypesNil)
         /\ ~HostExists(args[p].actorHostID)) =>
            ret[p].err \in {"HostNotFound", "BeginFailed", "StoreFailure", "CommitFailed"}

\* C13: RemoveActorHost for a host ID with no host row returns HostNotFound, and
\* RemoveActor for an actor with no assignment row returns ActorNotFound (or the
\* failure of the statement); neither returns success, neither changes a table.
C13_RemoveNotFound ==
    [][\A p \in Procs :
        /\ (/\ pc[p] = "idle" /\ Acts(p) /\ args'[p].op = "RemoveActorHost"
            /\ args'[p].actorHostID # NoHostID
            /\ ~HostExists(args'[p].actorHostID)) =>
              /\ pc'[p] = "done"
              /\ ret'[p].err # "nil"
              /\ NoFault => ret'[p].err = "HostNotFound"
              /\ UNCHANGED <<hosts, hat, actors>>
        /\ (/\ pc[p] = "idle" /\ Acts(p) /\ args'[p].op = "RemoveActor"
            /\ args'[p].ref[1] # "" /\ args'[p].ref[2] # ""
            /\ ~\E r \in actors : /\ r.actor_type = args'[p].ref[1]
                                  /\ r.actor_id = args'[p].ref[2]) =>
              /\ pc'[p] = "done"
              /\ ret'[p].err # "nil"
              /\ NoFault => ret'[p].err = "ActorNotFound"
              /\ UNCHANGED <<hosts, hat, actors>>]_vars

\* RemoveActorHost has returned HostNotFound for an ID that was never generated
\* while a host is registered and an actor is assigned.
C13_Witness ==
    \E p \in Procs :
        /\ pc[p] = "done" /\ args[p].op = "RemoveActorHost"
        /\ ret[p].err = "HostNotFound"
        /\ hosts # {} /\ actors # {}

\* C16: AddActorHost returns InvalidRequest whenever the address or the
\* application ID is empty or the API level is not greater than 0, and then
\* opens no transaction and changes nothing; for a request with all three valid
\* no step of the call returns InvalidRequest.
C16_AddActorHostValidation ==
    [][\A p \in Procs :
        /\ (pc[p] = "idle" /\ Acts(p) /\ args'[p].op = "AddActorHost") =>
              IF \/ args'[p].Address = "" \/ args'[p].AppID = ""
                 \/ ~(args'[p].ApiLevel > 0)
              THEN /\ pc'[p] = "done"
                   /\ ret'[p] = Return("InvalidRequest", NoHostID)
                   /\ tx'[p] = NoTx
                   /\ UNCHANGED <<hosts, hat, actors, nextId, tx>>
              ELSE ret'[p].err # "InvalidRequest"
        /\ (pc[p] \notin {"idle", "done"} /\ Acts(p) /\ args[p].op = "AddActorHost") =>
              ret'[p].err # "InvalidRequest"]_vars

\* A request with API level 0 has been refused after a valid one registered a
\* host.
C16_Witness ==
    \E p \in Procs :
        /\ pc[p] = "done" /\ args[p].op = "AddActorHost"
        /\ ret[p].err = "InvalidRequest"
        /\ args[p].ApiLevel = 0 /\ args[p].Address # "" /\ args[p].AppID # ""
        /\ hosts # {}

\* C17: a call of UpdateActorHost has returned InvalidRequest exactly when its
\* host ID is empty or both LastHealthCheck and ActorTypes are absent; a call
\* with a present ActorTypes list, even an empty one, never returns it.
C17_UpdateActorHostValidation ==
    \A p \in Procs :
        (IsUpdate(p) /\ pc[p] # "idle") =>
            IF \/ args[p].actorHostID = NoHostID
               \/ (args[p].LastHealthCheck = NilTime /\ args[p].ActorTypesNil)
            THEN pc[p] = "done" /\ ret[p].err = "InvalidRequest"
            ELSE ret[p].err # "InvalidRequest"

\* An update with no health check and a present, empty list has been carried
\* out on a host that had declarations.
C17_Witness ==
    \E p \in Procs :
        /\ pc[p] = "upd_types" /\ IsUpdate(p)
        /\ args[p].LastHealthCheck = NilTime
        /\ ~args[p].ActorTypesNil /\ args[p].ActorTypes = <<>>
        /\ HostExists(args[p].actorHostID)
        /\ loc[p].wrote

\* C18: UpdateActorHost with a health-check timestamp and no actor-type list is
\* one step that opens no transaction and changes nothing but the
\* last-health-check value of that host: the declarations, the assignments and
\* the other hosts are as they were.
C18_HealthCheckOnlyUpdate ==
    [][\A p \in Procs :
        (/\ pc[p] = "idle" /\ Acts(p) /\ args'[p].op = "UpdateActorHost"
         /\ args'[p].actorHostID # NoHostID
         /\ args'[p].ActorTypesNil /\ args'[p].LastHealthCheck # NilTime) =>
            /\ pc'[p] = "done"
            /\ tx[p] = NoTx /\ tx' = tx
            /\ UNCHANGED <<hat, actors, nextId>>
            /\ {h.host_id : h \in hosts'} = {h.host_id : h \in hosts}
            /\ Cardinality(hosts') = Cardinality(hosts)
            /\ \A h \in hosts :
                  IF h.host_id = args'[p].actorHostID /\ ret'[p].err = "nil"
                  THEN [h EXCEPT !.host_last_healthcheck = args'[p].LastHealthCheck]
                          \in hosts'
                  ELSE h \in hosts'
            /\ (ret'[p].err = "nil") = (NoFault /\ HostExists(args'[p].actorHostID))]_vars

\* The health check of one of two hosts has been updated; the other host keeps
\* the timestamp of its registration.
C18_Witness ==
    \E p \in Procs :
        /\ pc[p] = "done" /\ IsUpdate(p) /\ args[p].ActorTypesNil
        /\ ret[p].err = "nil"
        /\ \E h1, h2 \in hosts :
              /\ h1.host_id = args[p].actorHostID
              /\ h1.host_last_healthcheck = args[p].LastHealthCheck
              /\ h2.host_id # h1.host_id
              /\ h2.host_last_healthcheck # h1.host_last_healthcheck
        /\ hat # {}

InLookup(p) == pc[p] \in {"lk_query", "lk_insert", "lk_backoff"}

\* C14: a LookupActor call issues its query at most 3 times (loc.i counts the
\* attempts that ended in a backoff); it starts another attempt only from the
\* backoff, which it enters only when the insert met a unique violation; a
\* statement that fails otherwise ends the call with that failure; and a call
\* under way eventually returns.
C14_LookupAttemptsBounded ==
    /\ [](\A p \in Procs : /\ loc[p].i <= 3
                           /\ pc[p] \in {"lk_query", "lk_insert"} => loc[p].i < 3)
    /\ [][\A p \in Procs :
            /\ (pc'[p] = "lk_query" /\ Acts(p)) =>
                  \/ pc[p] = "idle" /\ loc'[p].i = 0
                  \/ pc[p] = "lk_backoff" /\ loc'[p].i = loc[p].i + 1
            /\ (pc'[p] = "lk_backoff" /\ Acts(p)) =>
                  /\ pc[p] = "lk_insert"
                  /\ \E r \in actors : /\ r.actor_type = args[p].ref[1]
                                       /\ r.actor_id = args[p].ref[2]
            /\ (pc[p] \in {"lk_query", "lk_insert"} /\ Acts(p) /\ ~NoFault) =>
                  /\ pc'[p] = "done"
                  /\ ret'[p] = ReturnRes("StoreFailure", EmptyRes)]_vars
    /\ \A p \in 1..NumProcs : InLookup(p) ~> (pc[p] = "done")

\* A call is at its third query.
C14_Witness ==
    \E p \in Procs : pc[p] = "lk_query" /\ loc[p].i = 2

\* C15: when the caller's context is cancelled during the backoff wait, the
\* call ends there with the cancellation error: it does not go back to the
\* query, and it writes nothing.
C15_CancelDuringBackoff ==
    [][\A p \in Procs :
        (pc[p] = "lk_backoff" /\ Acts(p) /\ ~NoFault) =>
            /\ pc'[p] = "done"
            /\ ret'[p] = ReturnRes("Cancelled", EmptyRes)
            /\ loc'[p].i = loc[p].i
            /\ UNCHANGED <<hosts, hat, actors>>]_vars

\* A call has returned the cancellation during the wait that followed its
\* second unique violation.
C15_Witness ==
    \E p \in Procs :
        /\ pc[p] = "done" /\ IsLookup(p) /\ ret[p].err = "Cancelled"
        /\ loc[p].i = 1

\* The positions of a call inside the callback of executeInTransaction.
TxBody == {"add_host", "add_types", "upd_host", "upd_delete", "upd_types"}

\* C19: a transactional call begins, runs its body, then commits or rolls back.
\* A failed begin ends the call with nothing else attempted; the commit is
\* attempted only when the body has returned no error; the rollback is attempted
\* exactly when the body or the commit failed; a call whose commit succeeded
\* returns without rolling back.
C19_TransactionProtocol ==
    [][\A p \in Procs :
        /\ (pc[p] = "idle" /\ Acts(p) /\ pc'[p] \in TxBody) =>
              ~tx[p].active /\ tx'[p] = OpenTx
        /\ (pc[p] = "idle" /\ Acts(p) /\ ret'[p].err = "BeginFailed") =>
              pc'[p] = "done" /\ ~tx'[p].active
        /\ (pc[p] \in TxBody /\ Acts(p)) =>
              /\ tx[p].active /\ tx'[p].active
              /\ IF ret'[p].err = "none"
                 THEN pc'[p] \in TxBody \cup {"commit"}
                 ELSE pc'[p] = "rollback" /\ ret'[p].err # "nil"
        /\ (pc'[p] = "commit" /\ Acts(p)) =>
              pc[p] \in TxBody /\ ret'[p].err = "none"
        /\ (pc[p] = "commit" /\ Acts(p)) =>
              \/ pc'[p] = "done" /\ ret'[p].err = "nil" /\ ~tx'[p].active
              \/ pc'[p] = "rollback" /\ ret'[p].err = "CommitFailed" /\ tx'[p].active
        /\ (pc'[p] = "rollback" /\ Acts(p)) =>
              /\ pc[p] \in TxBody \cup {"commit"}
              /\ ret'[p].err \notin {"none", "nil"}
        /\ (pc[p] = "rollback" /\ Acts(p)) =>
              /\ pc'[p] = "done" /\ ~tx'[p].active
              /\ ret'[p].err \notin {"none", "nil"}]_vars

\* A commit has failed and the rollback has followed it.
C19_Witness ==
    \E p \in Procs :
        /\ pc[p] = "done" /\ IsUpdate(p) /\ ret[p].err = "CommitFailed"
        /\ ~tx[p].active /\ hosts # {}

\* C20: the deferred rollback leaves the result of the call as the body or the
\* commit made it, whether the rollback succeeds or fails: what the caller gets
\* is the original error.
C20_RollbackErrorNotReturned ==
    [][\A p \in Procs :
        (pc[p] = "rollback" /\ Acts(p)) =>
            /\ ret'[p] = ret[p]
            /\ ret'[p].err \in {"HostConflict", "StoreFailure", "HostNotFound",
                                "CommitFailed"}]_vars

\* A call has returned the host conflict of its body although its rollback
\* failed.
C20_Witness ==
    \E p \in Procs :
        /\ pc[p] = "done" /\ loc[p].rollbackErr
        /\ ret[p].err = "HostConflict"

\* ---------------------------------------------------- reminder claims
\* Caller p's fetch-and-lease call has leased its batch and has not returned.
Fetching(p) ==
    pc[p] = "done" /\ args[p].op = "FetchReminders" /\ ret[p].err = "nil"
\* The statement of caller p's fetch-and-lease call runs in this step and succeeds.
FetchStep(p) ==
    pc[p] = "fr_exec" /\ pc'[p] = "done" /\ ret'[p].err = "nil"
IdsOf(rows) == {r.reminder_id : r \in rows}
Apart(a, b) == IF a < b THEN b - a ELSE a - b

\* C21: two fetch-and-lease calls that are under way at the same time, over the
\* same due reminders (the lease of neither has become stale when the other
\* runs), return disjoint sets of reminder IDs.
C21_ConcurrentFetchesDisjoint ==
    \A p, q \in Procs :
        (/\ p # q /\ Fetching(p) /\ Fetching(q)
         /\ Apart(fetched[p].at, fetched[q].at) <= LeaseDuration) =>
            IdsOf(fetched[p].rows) \cap IdsOf(fetched[q].rows) = {}

\* Two fetchers are under way at the same time and each has leased a reminder.
C21_Witness ==
    \E p, q \in Procs :
        /\ p # q /\ Fetching(p) /\ Fetching(q)
        /\ Apart(fetched[p].at, fetched[q].at) <= LeaseDuration
        /\ fetched[p].rows # {} /\ fetched[q].rows # {}

\* C22: every reminder row has its lease ID, lease time and leasing process ID
\* all absent or all present, and the current lease of a row is held by at most
\* one fetcher, the one whose process ID the row names; a fetch never returns a
\* reminder whose lease is present and not stale.
C22_LeaseWellFormed ==
    \A r \in reminders :
        /\ \/ /\ r.reminder_lease_id = Null
              /\ r.reminder_lease_time = NilTime
              /\ r.reminder_lease_pid = Null
           \/ /\ r.reminder_lease_id # Null
              /\ r.reminder_lease_time # NilTime
              /\ r.reminder_lease_pid # Null
        /\ \A p \in Procs :
            r \in fetched[p].rows =>
                /\ r.reminder_lease_id # Null
                /\ r.reminder_lease_pid = ProcessID(p)
                /\ \A q \in Procs \ {p} : r \notin fetched[q].rows
C22_NoSecondFetcher ==
    \A p \in Procs :
        FetchStep(p) =>
            \A x \in fetched'[p].rows :
                \E r \in reminders :
                    /\ r.reminder_id = x.reminder_id
                    /\ \/ r.reminder_lease_id = Null
                       \/ clock - r.reminder_lease_time > LeaseDuration
C22_LeaseExclusive ==
    []C22_LeaseWellFormed /\ [][C22_NoSecondFetcher]_vars

\* One reminder is leased, by a fetcher that holds it, next to an unleased one.
C22_Witness ==
    /\ \E p \in Procs : \E r \in reminders :
        r \in fetched[p].rows /\ r.reminder_lease_pid = ProcessID(p)
    /\ \E r \in reminders : r.reminder_lease_id = Null

\* C23: a fetch-and-lease call returns, with a fresh lease, every due reminder
\* in its scope whose lease is older than the staleness threshold whenever its
\* batch size admits all the reminders it may return; it returns no reminder
\* whose lease is younger than the threshold.
C23_StaleLeaseRecovered ==
    [][\A p \in Procs :
        FetchStep(p) =>
            LET types == args[p].types
                inScope == {r \in reminders : types = {} \/ r.actor_type \in types}
                due == {r \in inScope : r.reminder_execution_time <= clock}
                stale == {r \in due : /\ r.reminder_lease_id # Null
                                      /\ clock - r.reminder_lease_time > LeaseDuration}
                free == {r \in due : r.reminder_lease_id = Null}
            IN  /\ Cardinality(stale \cup free) <= args[p].batch =>
                    \A r \in stale :
                        \E x \in fetched'[p].rows :
                            /\ x.reminder_id = r.reminder_id
                            /\ x.reminder_lease_id # r.reminder_lease_id
                            /\ x.reminder_lease_time = clock
                            /\ x \in reminders'
                /\ \A r \in reminders :
                    (/\ r.reminder_lease_id # Null
                     /\ clock - r.reminder_lease_time < LeaseDuration) =>
                        r.reminder_id \notin IdsOf(fetched'[p].rows)]_vars

\* A fetcher holds a reminder that another fetcher leased longer ago than the
\* threshold and never released.
C23_Witness ==
    \E p, q \in Procs :
        /\ p # q /\ Fetching(q)
        /\ fetched[q].at - fetched[p].at > LeaseDuration
        /\ \E x \in fetched[p].rows : \E y \in fetched[q].rows :
            /\ x.reminder_id = y.reminder_id
            /\ x.reminder_lease_id # y.reminder_lease_id
            /\ y \in reminders

\* C24: the reminders a fetch-and-lease call returns were due and unleased or
\* stale-leased when the statement ran, are no more than the batch size, and
\* are in the table after the same step with a lease ID generated by this
\* statement (one per reminder), the current time and the caller's process ID.
C24_FetchLeasesBatch ==
    [][\A p \in Procs :
        FetchStep(p) =>
            /\ Cardinality(fetched'[p].rows) <= args[p].batch
            /\ fetched'[p].at = clock
            /\ \A x \in fetched'[p].rows :
                /\ \E r \in reminders :
                    /\ r.reminder_id = x.reminder_id
                    /\ r.reminder_execution_time <= clock
                    /\ \/ r.reminder_lease_id = Null
                       \/ clock - r.reminder_lease_time > LeaseDuration
                    /\ x.reminder_execution_time = r.reminder_execution_time
                /\ x \in reminders'
                /\ x.reminder_lease_id > uuids /\ x.reminder_lease_id <= uuids'
                /\ x.reminder_lease_time = clock
                /\ x.reminder_lease_pid = ProcessID(p)
                /\ \A y \in fetched'[p].rows :
                    y # x => y.reminder_lease_id # x.reminder_lease_id]_vars

\* A fetch with batch size 1 has leased one reminder and left a second one,
\* due at the time and in its scope, unleased.
C24_Witness ==
    \E p \in Procs :
        /\ Fetching(p) /\ args[p].batch = 1
        /\ Cardinality(fetched[p].rows) = 1
        /\ \E r \in reminders :
            /\ r.reminder_lease_id = Null
            /\ r.reminder_execution_time <= fetched[p].at
            /\ args[p].types = {} \/ r.actor_type \in args[p].types

\* C25: GetReminder and DeleteReminder for a key with no reminder return
\* ReminderNotFound (or the failure of the statement), never success, and
\* change nothing; CreateReminder for a key that has a reminder returns Conflict
\* (or the failure of the statement) and leaves the table unchanged; a
\* successful CreateReminder stores the schedule, a successful GetReminder
\* returns the stored one, and a reminder keeps its schedule in every step but
\* a successful DeleteReminder of its key.
C25_ReminderCrud ==
    [][/\ \A p \in Procs :
            (pc[p] = "idle" /\ Acts(p)) =>
                LET op == args'[p].op
                    had == \E r \in reminders : RefOf(r) = args'[p].ref
                IN  /\ (op \in {"GetReminder", "DeleteReminder"} /\ ~had) =>
                        /\ ret'[p].err # "nil"
                        /\ NoFault => ret'[p].err = "ReminderNotFound"
                        /\ reminders' = reminders
                    /\ (op = "CreateReminder" /\ had) =>
                        /\ ret'[p].err # "nil"
                        /\ NoFault => ret'[p].err = "Conflict"
                        /\ reminders' = reminders
                    /\ (op = "CreateReminder" /\ ret'[p].err = "nil") =>
                        \E r \in reminders' :
                            /\ RefOf(r) = args'[p].ref
                            /\ r.reminder_execution_time = args'[p].ExecutionTime
                    /\ (op = "GetReminder" /\ ret'[p].err = "nil") =>
                        \E r \in reminders :
                            /\ RefOf(r) = args'[p].ref
                            /\ r.reminder_execution_time = ret'[p].ExecutionTime
                    /\ (op = "GetReminder" /\ had /\ NoFault) => ret'[p].err = "nil"
       /\ \A r \in reminders :
            \/ \E x \in reminders' :
                /\ x.reminder_id = r.reminder_id /\ RefOf(x) = RefOf(r)
                /\ x.reminder_execution_time = r.reminder_execution_time
            \/ \E p \in Procs :
                /\ pc[p] = "idle" /\ Acts(p) /\ args'[p].op = "DeleteReminder"
                /\ args'[p].ref = RefOf(r) /\ ret'[p].err = "nil"]_vars

\* GetReminder has returned the schedule of a reminder that a fetcher holds
\* leased.
C25_Witness ==
    \E p \in Procs :
        /\ pc[p] = "done" /\ args[p].op = "GetReminder" /\ ret[p].err = "nil"
        /\ \E r \in reminders :
            /\ RefOf(r) = args[p].ref
            /\ r.reminder_execution_time = ret[p].ExecutionTime
            /\ r.reminder_lease_id # Null

\* ---------------------------------------------------- lifecycle claims
\* Caller p's Init parses the metadata in this step.
ParseStep(p) == pc[p] = "in_parse" /\ pc'[p] \in {"done", "in_connect"}
\* Caller p starts a call of op in this step.
Calls(p, op) == pc[p] = "idle" /\ Acts(p) /\ args'[p].op = op

\* C26: Init rejects every timeout shorter than 1 second; it accepts every
\* timeout of 1 second or longer and keeps it (given a connection string); with
\* no timeout property the timeout is 20 seconds.
C26_TimeoutAtLeastOneSecond ==
    [][\A p \in Procs :
        ParseStep(p) =>
            LET md == args[p].md
            IN  /\ (md.timeout = "duration" /\ md.value < Second) =>
                    pc'[p] = "done" /\ ret'[p].err # "nil"
                /\ (md.timeout = "duration" /\ md.value >= Second
                        /\ md.connectionString # "") =>
                    pc'[p] = "in_connect" /\ metadata'.Timeout = md.value
                /\ (md.timeout = "absent" /\ md.connectionString # "") =>
                    pc'[p] = "in_connect" /\ metadata'.Timeout = 20 * Second]_vars

\* Init has returned the timeout error for a timeout one millisecond short of
\* a second.
C26_Witness ==
    \E p \in Procs :
        /\ pc[p] = "done" /\ args[p].op = "Init"
        /\ args[p].md.timeout = "duration" /\ args[p].md.value = Second - 1
        /\ ret[p].err = "InvalidTimeout"

\* C27: Init accepts every timeout greater than 0 (given a connection string)
\* and returns the timeout error only for a timeout that is not greater than 0.
C27_TimeoutPositive ==
    [][\A p \in Procs :
        ParseStep(p) =>
            LET md == args[p].md
            IN  /\ (md.timeout = "duration" /\ md.value > 0
                        /\ md.connectionString # "") =>
                    pc'[p] = "in_connect"
                /\ ret'[p].err = "InvalidTimeout" => ~(metadata'.Timeout > 0)]_vars

\* C28: at most one Init call of a store passes the gate; an Init call that
\* starts when the flag is set returns "already running" in that step and
\* leaves the flag, the configuration, the pool and the tables as they
\* are; an Init call that starts when it is clear sets it and goes on.
C28_OneInitProceeds ==
    /\ passed <= 1
    /\ Cardinality({p \in Procs : /\ args[p].op = "Init"
                                  /\ ret[p].err # "already running"}) <= passed
C28_GateStep ==
    \A p \in Procs :
        Calls(p, "Init") =>
            IF running
            THEN /\ pc'[p] = "done"
                 /\ ret'[p].err = "already running"
                 /\ UNCHANGED <<running, db, metadata, passed, hosts, hat, actors>>
            ELSE /\ running' /\ passed' = passed + 1
                 /\ pc'[p] = "in_parse"
C28_InitGate == []C28_OneInitProceeds /\ [][C28_GateStep]_vars

\* One Init call is past the gate and under way while another has returned
\* "already running".
C28_Witness ==
    \E p, q \in Procs :
        /\ p # q /\ args[p].op = "Init" /\ args[q].op = "Init"
        /\ pc[p] \in {"in_parse", "in_connect", "in_ping", "in_migrate"}
        /\ pc[q] = "done" /\ ret[q].err = "already running"

\* C29: the step a Close call takes on a store whose Init has returned success
\* does not call Close again, and when it returns the pool is closed; Close on
\* a store that is not running returns nil in that step and changes nothing.
C29_CloseClosesPool ==
    [][\A p \in Procs :
        Calls(p, "Close") =>
            /\ (/\ running /\ db = "open"
                /\ \E q \in Procs : /\ args[q].op = "Init" /\ pc[q] = "done"
                                    /\ ret[q].err = "nil") =>
                    /\ pc'[p] # "cl_call"
                    /\ pc'[p] = "done" => db' = "closed"
            /\ ~running =>
                    /\ pc'[p] = "done" /\ ret'[p].err = "nil"
                    /\ UNCHANGED <<running, db, metadata>>]_vars

\* C30: in the step in which a Close call returns, the store is not running.
C30_ClosedAfterClose ==
    [][\A p \in Procs :
        (args'[p].op = "Close" /\ pc[p] # "done" /\ pc'[p] = "done") =>
            ~running']_vars

\* C31: a LookupActor that has returned a nil error has returned the application
\* ID, the address and the idle timeout of the host in the actor's assignment
\* row (the row its last statement returned), never the empty response.
C31_LookupNilCarriesHost ==
    \A p \in Procs :
        (pc[p] = "done" /\ IsLookup(p) /\ ret[p].err = "nil") =>
            /\ ret[p].res # EmptyRes
            /\ ret[p].res = ResponseOf(loc[p].row)

\* C32: no step of an UpdateActorHost call whose transaction is open takes away
\* from the committed declarations (what a concurrent LookupActor or reader
\* sees) a declaration of the host for a type that is in the call's new list:
\* the old declarations go and the new ones come in the commit alone.
C32_ReplacementVisibleAtOnce ==
    [][\A p \in Procs :
        (IsUpdate(p) /\ tx[p].active /\ Acts(p)) =>
            \A t \in Range(args[p].ActorTypes) :
                (\E d \in hat : /\ d.host_id = args[p].actorHostID
                                /\ d.actor_type = t.ActorType) =>
                    \E d \in hat' : /\ d.host_id = args[p].actorHostID
                                    /\ d.actor_type = t.ActorType]_vars

\* C33: every committed actor assignment row (T, id, H) has a committed
\* declaration row of host H for actor type T.
C33_AssignmentsHaveDeclarations ==
    \A a \in actors :
        \E d \in hat : d.host_id = a.host_id /\ d.actor_type = a.actor_type

\* C34: every committed declaration row and every committed assignment row
\* refers to a host ID that has a committed row in the hosts table.
C34_RowsReferToHosts ==
    /\ \A d \in hat : \E h \in hosts : h.host_id = d.host_id
    /\ \A a \in actors : \E h \in hosts : h.host_id = a.host_id

\* A host has been removed while another host keeps its declarations and an
\* actor assigned to it.
C34_Witness ==
    /\ nextId = 2 /\ Cardinality(hosts) = 1
    /\ hat # {} /\ actors # {}

\* C35: LookupActor waits in its backoff only between two attempts: a call that
\* is waiting has made at most 2 attempts (loc.i counts the waits it has
\* finished), so it waits at most twice and never after its third attempt.
C35_BackoffOnlyBetweenAttempts ==
    \A p \in Procs :
        pc[p] = "lk_backoff" => loc[p].i + 1 < LookupAttempts

\* C36: an AddActorHost call that has returned an error has returned the empty
\* host ID with it, also when the error is a failed commit after a successful
\* body.
C36_AddErrorHasNoHostID ==
    \A p \in Procs :
        (pc[p] = "done" /\ args[p].op = "AddActorHost" /\ ret[p].err # "nil") =>
            ret[p].hostID = NoHostID

\* C37: in the step in which an Init call that passed the gate returns an error
\* (from parsing, connecting, the ping or the migration), the store is not
\* running, so that a Ping then reports "not running" and another Init is not
\* rejected as "already running".
C37_FailedInitNotRunning ==
    [][\A p \in Procs :
        (/\ pc[p] \in {"in_parse", "in_connect", "in_ping", "in_migrate"}
         /\ pc'[p] = "done" /\ ret'[p].err # "nil") =>
            ~running']_vars

\* The request caller p passes in this step lacks a required identifier: an
\* empty actor type or actor ID for LookupActor and RemoveActor, an empty host
\* ID for RemoveActorHost and UpdateActorHost.
C38_MissingIdentifier(p) ==
    \/ /\ args'[p].op \in {"LookupActor", "RemoveActor"}
       /\ (args'[p].ref[1] = "" \/ args'[p].ref[2] = "")
    \/ /\ args'[p].op \in {"RemoveActorHost", "UpdateActorHost"}
       /\ args'[p].actorHostID = NoHostID

\* C38: LookupActor and RemoveActor with an empty actor type or actor ID, and
\* RemoveActorHost and UpdateActorHost with an empty host ID, return
\* InvalidRequest in the step of the call: no statement is issued, no
\* transaction is begun, and the tables are unchanged.
C38_EmptyIdentifiersRejected ==
    [][\A p \in Procs :
        (pc[p] = "idle" /\ Acts(p) /\ C38_MissingIdentifier(p)) =>
            /\ pc'[p] = "done"
            /\ ret'[p].err = "InvalidRequest"
            /\ tx'[p] = NoTx
            /\ UNCHANGED <<hosts, hat, actors, nextId, placed>>]_vars

\* A LookupActor with an empty actor ID has been refused while the store holds
\* a host and an assigned actor.
C38_Witness ==
    \E p \in Procs :
        /\ pc[p] = "done" /\ IsLookup(p)
        /\ args[p].ref = <<"cat", "">>
        /\ ret[p].err = "InvalidRequest"
        /\ hosts # {} /\ actors # {}

\* The names of the store's tables under the configuration: the prefix followed
\* by the fixed suffix of the table, and different under different prefixes.
C39_TableNames ==
    \A t \in pgTables :
        /\ TableName(metadata, t) = metadata.TablePrefix \o t
        /\ \A a, b \in {""} \cup TablePrefixes :
              a # b => TableName([metadata EXCEPT !.TablePrefix = a], t)
                           # TableName([metadata EXCEPT !.TablePrefix = b], t)
\* A parse of the property map md leaves the object, and returns the error,
\* that a parse of md into a new object does; a property that is absent leaves
\* its default: no prefix, "dapr_metadata", 20 seconds.
C39_ParseStep ==
    \A p \in Procs :
        Calls(p, "InitWithMetadata") =>
            LET md == args'[p].md
                fresh == InitWithMetadata(ZeroMetadata, md)
            IN  /\ metadata' = fresh.m
                /\ ret'[p].err = fresh.err
                /\ md.tablePrefix = <<>> => metadata'.TablePrefix = ""
                /\ md.metadataTableName = <<>> =>
                      metadata'.MetadataTableName = "dapr_metadata"
                /\ md.timeout # "duration" => metadata'.Timeout = 20 * Second
                /\ (md.timeout # "malformed" /\ md.tablePrefix # <<>>) =>
                      metadata'.TablePrefix = md.tablePrefix[1]

\* C39: each parse of the configuration starts from the defaults (no table
\* prefix, metadata table "dapr_metadata", timeout 20s), so its result depends
\* on the supplied properties only and not on an earlier parse; and the name of
\* a table is the configured prefix followed by the table's fixed suffix, so
\* that two distinct prefixes give two distinct names for the same table.
C39_ParseIndependentOfHistory == [][C39_ParseStep]_vars /\ []C39_TableNames

\* A parse that gave the prefix "a_" and the metadata table "m1" has been
\* followed by a parse of a map with neither property: the object holds the
\* defaults again, and the hosts table has its bare name.
C39_Witness ==
    \E p, q \in Procs :
        /\ p # q /\ pc[p] = "done" /\ pc[q] = "done"
        /\ args[p].op = "InitWithMetadata" /\ args[q].op = "InitWithMetadata"
        /\ args[q].md.tablePrefix = <<"a_">> /\ args[q].md.metadataTableName = <<"m1">>
        /\ ret[q].err = "nil"
        /\ args[p].md.tablePrefix = <<>> /\ args[p].md.metadataTableName = <<>>
        /\ ret[p].err = "nil"
        /\ metadata.TablePrefix = "" /\ metadata.MetadataTableName = "dapr_metadata"
        /\ TableName(metadata, "hosts") = "hosts"

====
